---- MODULE Spec2Model ----
(***************************************************************************)
(* emu-sync: the sync (download) engine, internal/sync.Run, with the       *)
(* manifest diff, the retry policy, the sync lock and the worker pool it   *)
(* is built on; the upload engine, internal/upload.Run, with its hash      *)
(* cache; retry.WithBackoff and ratelimit.Limiter on their own.  Files are *)
(* modelled by their content version, manifests by their Files map         *)
(* (key -> FileEntry).                                                     *)
(***************************************************************************)
EXTENDS Integers, Sequences, FiniteSets, TLC

\* ------------------------------------------------------------------ bounds
MaxRuns == 2        \* Run invocations per process in one behaviour
MaxWorkers == 2     \* largest Options.Workers value tried
MaxRetry == 1       \* largest Options.MaxRetries value tried
LimRate == 2        \* the Limiter's rate in chunks per second; one tick of the
                    \* clock is 1/LimRate second, the refill time of one chunk
MaxTick == 4        \* the last tick of the clock
MaxReqs == 3        \* POST /api/sync requests received by the web server
MaxJobs == 3        \* most keys handed to a worker pool on its own
MaxClients == 2     \* most clients streaming one event log
MaxLines == 2       \* most lines written to one event log

\* ------------------------------------------------------- the key universe
K1 == "roms/a.sfc"
K2 == "bios/b.bin"
Keys == {K1, K2}
\* the directories that are a path prefix of a key (key has prefix dir + "/")
Ancestors(key) == IF key = K1 THEN {"roms"} ELSE {"bios"}

\* file states: no file, a truncated file, or a complete content version
NoFile == "none"
Partial == "partial"
Contents == {"v1", "v2"}
FileStates == {NoFile, Partial} \cup Contents

\* manifest.FileEntry of a file holding content c
SizeOf(c) == IF c = "v1" THEN 1 ELSE 2
EntryOf(c) == [Size |-> SizeOf(c), MD5 |-> c]

\* --------------------------------------------------------- map helpers
EmptyMap == [k \in {} |-> EntryOf("v1")]
MapSet(m, key, e) == [k \in (DOMAIN m) \cup {key} |-> IF k = key THEN e ELSE m[k]]
MapDelete(m, key) == [k \in (DOMAIN m) \ {key} |-> m[k]]
Range(s) == {s[i] : i \in 1..Len(s)}
\* every ordering of a finite set, as sequences (Go map iteration order)
Perms(S) == {s \in [1..Cardinality(S) -> S] : \A i, j \in 1..Cardinality(S) : i # j => s[i] # s[j]}

\* ------------------------------------------------------ config.ShouldSync
ShouldSync(c, key) ==
    /\ key \notin c.SyncExclude
    /\ \E dir \in c.SyncDirs : key = dir \/ dir \in Ancestors(key)

\* ----------------------------------------------------------- manifest.Diff
DiffAdded(rem, loc) == {k \in DOMAIN rem : k \notin DOMAIN loc}
DiffModified(rem, loc) ==
    {k \in DOMAIN rem : k \in DOMAIN loc /\ (loc[k].MD5 # rem[k].MD5 \/ loc[k].Size # rem[k].Size)}
DiffDeleted(rem, loc) == {k \in DOMAIN loc : k \notin DOMAIN rem}

\* ------------------------------------------------------------------ state
Procs == {1, 2}                 \* operating-system processes that may call Run
Threads == 0..MaxWorkers        \* 0: the goroutine that called Run; 1..: pool workers
Reqs == 1..MaxReqs              \* the POST /api/sync requests the web server receives
PoolWorkers == 1..(MaxWorkers + 1)  \* the goroutines of a worker pool on its own

VARIABLES
    remote,     \* Files of the manifest published in the bucket (object k holds content remote[k].MD5)
    cfg,        \* config.Config: Sync.SyncDirs, Sync.SyncExclude, Sync.Delete
    disk,       \* emulation path: state of the file at each key's final path
    tmp,        \* emulation path: state of the file at each key's final path + tmpSuffix
    localFile,  \* Files of the local manifest file on disk (missing file = empty map)
    holds,      \* holds[p]: process p holds the flock on sync.lock
    lockFile,   \* the file sync.lock exists
    pc,         \* pc[p]: where process p is in Run
    run,        \* run[p]: the locals of p's Run call (opts, filteredRemote, local, result, ...)
    task,       \* task[p][t]: the retry.WithBackoff/downloadOne call of goroutine t of p
    chans,      \* chans[p]: the jobs and results channels of downloadParallel
    cancelled,  \* cancelled[p]: the ctx passed to p's Run has been cancelled
    hist,       \* hist[p]: history of p's Run call (calls issued, inputs at start); never read by Run
    wb,         \* a retry.WithBackoff call made on its own, with any fallible operation as fn
    lim,        \* a ratelimit.Limiter, its callers and the clock
    tree,       \* upload: the source directory (exists, and the content of the file of each key)
    cacheFile,  \* upload: the hash cache file on disk (missing file = empty map)
    objects,    \* upload: the content of the bucket object of each key
    up,         \* upload: the locals of the upload.Run call
    utask,      \* upload: utask[t]: the retry.WithBackoff/UploadFile call of goroutine t
    uchans,     \* upload: the jobs and results channels of uploadParallel
    uhist,      \* upload: history of the Run call; never read by Run
    ver,        \* a sync.Verify call: its locals and its result
    sav,        \* a Manifest.SaveJSON call on its own: the target path, its sibling temp path, the step
    dif,        \* manifest.Diff calls on their own: the two manifests, the loop position, the result
    hc,         \* an upload hashCache on its own: the entries and the last lookup
    web,        \* the web server: syncMu, syncLog, syncDone, the requests and the sync goroutines
    pool,       \* a worker pool of downloadParallel or uploadParallel on its own: channels, goroutines
    ev,         \* an eventLog of the web server and the clients streaming it: lines, done, notify, cursors
    ch          \* the web chooser: the groups built from a manifest, the selection, the encoded lists

\* the state of the sync engine on one device
device == <<cfg, disk, tmp, localFile, holds, lockFile, pc, run, task, chans, cancelled, hist>>
\* the state of the components a Sync run does not touch
\* the event log with its clients, and the chooser
more == <<ev, ch>>
others == <<wb, lim, tree, cacheFile, objects, up, utask, uchans, uhist, ver, sav, dif, hc, web, pool, more>>
\* the state of Verify, and of SaveJSON, Diff, the hash cache and the web server on their own
alone == <<ver, sav, dif, hc, web, pool, more>>
\* the state of upload.Run and of what it works on, the bucket manifest aside
uploader == <<tree, cacheFile, objects, up, utask, uchans, uhist>>

vars == <<remote, device, others>>

\* the (remote, local manifest, disk) situations one key can start in
KeyWorlds ==
    { <<"v2", NoFile, NoFile>>,     \* new in the bucket
      <<"v2", "v1", "v1">>,         \* modified in the bucket
      <<"v2", "v1", NoFile>>,       \* modified in the bucket and missing from disk
      <<"v2", "v2", "v2">>,         \* in sync
      <<"v2", "v2", NoFile>>,       \* in the local manifest, missing from disk
      <<NoFile, "v1", "v1">>,       \* removed from the bucket
      <<NoFile, "v1", NoFile>>,     \* removed from the bucket and missing from disk
      <<NoFile, NoFile, NoFile>> }  \* unknown everywhere

ManifestOf(w, i) == [k \in {x \in Keys : w[x][i] # NoFile} |-> EntryOf(w[k][i])]

\* sync_dirs / sync_exclude selections: everything (K2 as an individual file
\* entry), or K2 excluded
CfgChoices ==
    { [SyncDirs |-> {"roms", K2}, SyncExclude |-> {}, Delete |-> d] : d \in BOOLEAN }
    \cup { [SyncDirs |-> {"roms", "bios"}, SyncExclude |-> {K2}, Delete |-> d] : d \in BOOLEAN }

DefaultThreshold == 52428800   \* 50 * 1024 * 1024

\* Options values tried; a dry run never reads Workers, MaxRetries, SaveThreshold
OptionChoices ==
    { [DryRun |-> FALSE, NoDelete |-> nd, Workers |-> w, MaxRetries |-> r, SaveThreshold |-> t,
       Progress |-> FALSE] :
        nd \in BOOLEAN, w \in 1..MaxWorkers, r \in (-1)..MaxRetry, t \in {0, 2} }
    \cup { [DryRun |-> TRUE, NoDelete |-> nd, Workers |-> 1, MaxRetries |-> 0, SaveThreshold |-> 0,
             Progress |-> FALSE] :
        nd \in BOOLEAN }

NoOpts == [DryRun |-> TRUE, NoDelete |-> FALSE, Workers |-> 1, MaxRetries |-> 0, SaveThreshold |-> 0,
           Progress |-> FALSE]
EmptyResult == [Downloaded |-> <<>>, Deleted |-> <<>>, Retained |-> <<>>, Skipped |-> 0, Errors |-> <<>>]
\* late (history only): the call was started after ctx had been cancelled
IdleTask == [st |-> "idle", key |-> K1, attempt |-> 0, err |-> "nil", late |-> FALSE]
IdleRun ==
    [opts |-> NoOpts, fatal |-> "nil", filtered |-> EmptyMap, local |-> EmptyMap,
     deleted |-> <<>>, queue |-> <<>>, idx |-> 1, unsaved |-> 0, threshold |-> 0,
     result |-> EmptyResult, runs |-> 0]
IdleChans == [jobs |-> <<>>, results |-> <<>>]
\* calls: keys client.DownloadFile was called for; ok: keys whose downloadOne
\* returned nil;
\* disk0, local0: the files and the local manifest file when Run was called;
\* prevOK: the Run before this one was a fully successful Sync;
\* drift: a file was deleted by the user since Run was called; prevDrift: a
\* file was deleted by the user between the Run before this one and this one;
\* events: the lines the progress Reporter of this Run has written
NoHist == [calls |-> {}, ok |-> {}, disk0 |-> [k \in Keys |-> NoFile],
           local0 |-> EmptyMap, prevOK |-> FALSE, drift |-> FALSE, prevDrift |-> FALSE,
           events |-> <<>>]

\* no WithBackoff call on its own: results (history) lists what fn returned,
\* waits (history) counts the delays WithBackoff started to wait
IdleBackoff == [tk |-> IdleTask, maxRetries |-> 0, ctxDone |-> FALSE, results |-> <<>>, waits |-> 0]
\* no Limiter
IdleLimiter == [rate |-> 0, available |-> 0, last |-> 0, now |-> 0, sleep |-> <<>>, served |-> <<>>]

\* upload.Options values tried; a dry run never reads Workers and MaxRetries
UploadChoices ==
    { [DryRun |-> FALSE, ManifestOnly |-> mo, Workers |-> w, MaxRetries |-> r] :
        mo \in BOOLEAN, w \in 1..MaxWorkers, r \in (-1)..MaxRetry }
    \cup { [DryRun |-> TRUE, ManifestOnly |-> mo, Workers |-> 1, MaxRetries |-> 0] : mo \in BOOLEAN }
NoUploadOpts == [DryRun |-> TRUE, ManifestOnly |-> FALSE, Workers |-> 1, MaxRetries |-> 0]
EmptyUploadResult == [Uploaded |-> <<>>, Skipped |-> 0, Deleted |-> <<>>, Errors |-> <<>>, CacheHits |-> 0]
IdleUp ==
    [pc |-> "idle", opts |-> NoUploadOpts, fatal |-> "nil", cache |-> EmptyMap, new |-> EmptyMap,
     old |-> EmptyMap, queue |-> <<>>, deleted |-> <<>>, idx |-> 1, result |-> EmptyUploadResult, runs |-> 0,
     cancelled |-> FALSE]
\* calls: the UploadFile and DeleteObject calls issued, as <<operation, key>>;
\* published: the UploadManifest calls issued; late: a call was issued after
\* an UploadManifest call; tried, saved: hashCache.save was called, and wrote
\* the cache file; cache0, remote0, objects0: the cache file and the bucket
\* when Run was called; prevNew, prevCalls, prevOK: the manifest built and the
\* calls issued by the Run before this one, and whether that Run was not a dry
\* run, saved its cache and returned nil
NoUploadHist ==
    [calls |-> {}, published |-> 0, late |-> FALSE, tried |-> FALSE, saved |-> FALSE,
     cache0 |-> EmptyMap, remote0 |-> EmptyMap, objects0 |-> [k \in Keys |-> NoFile],
     prevNew |-> EmptyMap, prevCalls |-> {}, prevOK |-> FALSE]
\* no source directory
NoTree == [exists |-> FALSE, files |-> [k \in Keys |-> NoFile]]
\* upload.Run is not in use
UploaderIdle ==
    /\ tree = NoTree /\ cacheFile = EmptyMap /\ objects = [k \in Keys |-> NoFile]
    /\ up = IdleUp /\ utask = [t \in Threads |-> IdleTask] /\ uchans = IdleChans
    /\ uhist = NoUploadHist

\* what Verify returns
EmptyVerifyResult == [OK |-> <<>>, Mismatch |-> <<>>, Missing |-> <<>>, Errors |-> <<>>]
\* Verify has not been called. local: the manifest in memory; todo: the keys
\* the range loop has not visited; local0: the manifest as loaded and failed:
\* the keys whose Stat or HashFile call failed (neither is read by Verify)
IdleVerify ==
    [pc |-> "idle", local |-> EmptyMap, todo |-> {}, result |-> EmptyVerifyResult,
     toRemove |-> <<>>, fatal |-> "nil", local0 |-> EmptyMap, failed |-> {}]
\* a manifest file: absent, whole (all the bytes of the JSON of manifest m) or
\* part (some leading bytes of it, possibly none)
AbsentFile == [st |-> "absent", m |-> EmptyMap]
WholeFile(m) == [st |-> "whole", m |-> m]
PartFile(m) == [st |-> "part", m |-> m]
\* SaveJSON has not been called. target, temp: the files at path and at
\* path + ".tmp"; new: the manifest being saved; old: the target file when
\* SaveJSON was called (not read by SaveJSON)
IdleSave ==
    [pc |-> "idle", target |-> AbsentFile, temp |-> AbsentFile, new |-> EmptyMap,
     old |-> AbsentFile, err |-> "nil"]
\* what Diff returns
EmptyDiffResult == [Added |-> <<>>, Modified |-> <<>>, Deleted |-> <<>>]
\* Diff has not been called. x, y: the two manifests at hand; remote, local:
\* the arguments of the call under way; todoR, todoL: the keys the first and
\* the second range loop have not visited; res: the results returned so far
IdleDiff ==
    [pc |-> "idle", x |-> EmptyMap, y |-> EmptyMap, remote |-> EmptyMap, local |-> EmptyMap,
     todoR |-> {}, todoL |-> {}, result |-> EmptyDiffResult, res |-> <<>>]
\* the result of a lookup and its arguments; none made yet
NoLookup == [key |-> "none", size |-> 0, mtime |-> "never", md5 |-> "", ok |-> FALSE]
\* no hashCache has been made. Files: its entries; last: the lookup made since
\* the entries last changed; args: for each key the arguments of its last
\* update, while its entry exists (neither is read by the cache)
IdleCache == [pc |-> "idle", Files |-> <<>>, last |-> NoLookup, args |-> <<>>]
\* a POST /api/sync that has not arrived. saw (history only): a started sync
\* had not finished when the request made its test under syncMu
NoRequest == [pc |-> "none", body |-> "ok", status |-> 0, saw |-> FALSE]
\* no web server. mu: the holder of syncMu (0: free, r: the handler of request
\* r, MaxReqs + r: the sync goroutine started by request r); syncLog, syncDone:
\* 0 for nil, else the request that made them; closed: the syncDone channels
\* closed; gor[r]: the position of the runSync goroutine started by request r
IdleWeb ==
    [pc |-> "idle", mu |-> 0, syncLog |-> 0, syncDone |-> 0, closed |-> {},
     req |-> [r \in Reqs |-> NoRequest], gor |-> [r \in Reqs |-> "none"]]
\* SaveJSON, Diff, the hash cache and the web server are not in use on their own
\* a worker of a pool that has not been started
NoWorker == [st |-> "none", key |-> "none", err |-> "nil"]
\* no pool. keys, workers: the arguments keys and opts.Workers; sent: the
\* keys the send loop has sent; jobs, results: the buffered channels; wg: the
\* WaitGroup counter; wk: the worker goroutines; closer: the goroutine that
\* closes results; got: the results the coordinator has received; taken, ran:
\* the keys received by workers and those whose retry-wrapped transfer has
\* returned, in order (history only)
IdlePool ==
    [pc |-> "idle", keys |-> <<>>, workers |-> 0, sent |-> 0,
     jobs |-> <<>>, jobsClosed |-> FALSE, results |-> <<>>, resultsClosed |-> FALSE,
     wg |-> 0, wk |-> [w \in PoolWorkers |-> NoWorker], closer |-> "none",
     got |-> <<>>, taken |-> <<>>, ran |-> <<>>]
\* no event log: syncLog is nil, no client is connected.  wpc: where the
\* goroutine of runSync is; cl[c]: client c's handleSyncEvents call, with from
\* (history) the cursor it started at and got the events written to it
Clients == 1..MaxClients
NoClient == [pc |-> "off", cursor |-> 0, from |-> 0, got |-> <<>>]
IdleEvents ==
    [log |-> FALSE, lines |-> <<>>, done |-> FALSE, notify |-> 0, wpc |-> "idle",
     cl |-> [c \in Clients |-> NoClient]]
\* the chooser is not in use
IdleChoose == [pc |-> "off", manifest |-> {}, selected |-> {}, dirs |-> {}, excl |-> {}]
MoreIdle == ev = IdleEvents /\ ch = IdleChoose
AsideIdle ==
    sav = IdleSave /\ dif = IdleDiff /\ hc = IdleCache /\ web = IdleWeb /\ pool = IdlePool /\ MoreIdle
\* nor is Verify
RestIdle == ver = IdleVerify /\ AsideIdle

\* the components a Sync run does not touch are not in use
OthersIdle == wb = IdleBackoff /\ lim = IdleLimiter /\ UploaderIdle /\ RestIdle

\* a device before any Run call: each key in one of the situations of worlds,
\* a configuration out of cfgs, no temp file or one left by an interrupted run
InitWith(worlds, cfgs) ==
    /\ \E w \in [Keys -> worlds] :
        /\ remote = ManifestOf(w, 1)
        /\ localFile = ManifestOf(w, 2)
        /\ disk = [k \in Keys |-> w[k][3]]
    /\ cfg \in cfgs
    /\ tmp \in {[k \in Keys |-> NoFile], [k \in Keys |-> IF k = K1 THEN Partial ELSE NoFile]}
    /\ holds = [p \in Procs |-> FALSE]
    /\ lockFile = FALSE
    /\ pc = [p \in Procs |-> "idle"]
    /\ run = [p \in Procs |-> IdleRun]
    /\ task = [p \in Procs |-> [t \in Threads |-> IdleTask]]
    /\ chans = [p \in Procs |-> IdleChans]
    /\ cancelled = [p \in Procs |-> FALSE]
    /\ hist = [p \in Procs |-> NoHist]
    /\ OthersIdle

Init == InitWith(KeyWorlds, CfgChoices)

\* --------------------------------------------------------------- Run: entry
\* the last Run of p was a non-dry-run Sync in which nothing failed
FullySuccessful(p) ==
    /\ pc[p] = "done"
    /\ ~run[p].opts.DryRun
    /\ run[p].fatal = "nil"
    /\ run[p].result.Errors = <<>>

\* a caller invokes Run with Options o out of choices, at most limit times
Start(p, choices, limit) ==
    /\ pc[p] \in {"idle", "done"}
    /\ run[p].runs < limit
    /\ \E o \in choices :
        /\ run' = [run EXCEPT ![p] = [IdleRun EXCEPT !.opts = o, !.runs = run[p].runs + 1]]
        /\ pc' = [pc EXCEPT ![p] = IF o.DryRun THEN "fetch" ELSE "lock"]
    /\ task' = [task EXCEPT ![p] = [t \in Threads |-> IdleTask]]
    /\ chans' = [chans EXCEPT ![p] = IdleChans]
    /\ cancelled' = [cancelled EXCEPT ![p] = FALSE]
    /\ hist' = [hist EXCEPT ![p] = [NoHist EXCEPT !.disk0 = disk, !.local0 = localFile,
                                                  !.prevOK = FullySuccessful(p),
                                                  !.prevDrift = hist[p].drift]]
    /\ UNCHANGED <<remote, cfg, lockFile, disk, tmp, localFile, holds, others>>

\* variant: the lock attempt does not look at other holders
FlockAlwaysFree(p) == TRUE

\* flock(LOCK_EX | LOCK_NB) on sync.lock: fails when another open file holds
\* it, of another process or one this process has left locked
FlockFree(p) == \A q \in Procs : ~holds[q]

\* variant: Run returns without the deferred releaseLock
ReturnKeepsLock(p, err) ==
    /\ pc' = [pc EXCEPT ![p] = "done"]
    /\ holds' = holds
    /\ run' = [run EXCEPT ![p].fatal = err]

\* Run returns: the deferred releaseLock runs (LOCK_UN and Close, the file
\* stays), the goroutines are gone
Return(p, err) ==
    /\ pc' = [pc EXCEPT ![p] = "done"]
    /\ holds' = [holds EXCEPT ![p] = FALSE]
    /\ run' = [run EXCEPT ![p].fatal = err]

\* acquireLock: OpenFile(sync.lock, O_CREATE|O_RDWR), then the flock attempt
AcquireLock(p) ==
    /\ pc[p] = "lock"
    /\ lockFile' = TRUE
    /\ IF FlockFree(p)
         THEN /\ holds' = [holds EXCEPT ![p] = TRUE]
              /\ pc' = [pc EXCEPT ![p] = "fetch"]
              /\ run' = run
         ELSE Return(p, "another sync is already running")
    /\ UNCHANGED <<remote, cfg, disk, tmp, localFile, task, chans, cancelled, hist, others>>

\* cleanTempFiles: every file under the emulation path ending in tmpSuffix is removed
CleanedTemp == [k \in Keys |-> NoFile]

\* variant: the temp files are cleaned before the remote manifest is fetched
FetchFailCleans(p) ==
    /\ pc[p] = "fetch"
    /\ \E err \in {"downloading remote manifest", "parsing remote manifest"} : Return(p, err)
    /\ tmp' = CleanedTemp
    /\ UNCHANGED <<remote, cfg, lockFile, disk, localFile, task, chans, cancelled, hist, others>>

\* client.DownloadManifest or manifest.ParseJSON fails
FetchFail(p) ==
    /\ pc[p] = "fetch"
    /\ \E err \in {"downloading remote manifest", "parsing remote manifest"} : Return(p, err)
    /\ UNCHANGED <<remote, cfg, lockFile, disk, tmp, localFile, task, chans, cancelled, hist, others>>


\* variant: cleanTempFiles is called in a dry run too
TempCleanedAlways(o) == CleanedTemp

\* the temp files after Run's "if !opts.DryRun { cleanTempFiles(...) }"
TempAfterPlan(o) == IF o.DryRun THEN tmp ELSE CleanedTemp

\* threshold resolution of Run
ResolveThreshold(t) == IF t <= 0 THEN DefaultThreshold ELSE t

\* variant: drift healing without the "queued" set
HealSetUnchecked(filtered, local, queued) ==
    {k \in DOMAIN filtered : k \in DOMAIN local /\ disk[k] = NoFile}

\* the keys drift healing adds: selected, in the local manifest, not queued by
\* the diff, and missing from disk
HealSet(filtered, local, queued) ==
    {k \in DOMAIN filtered : k \notin queued /\ k \in DOMAIN local /\ disk[k] = NoFile}

\* which download path Run takes
UseParallel(o, q) == o.Workers > 1 /\ Len(q) > 1

\* Run from the manifest download to the choice of the download path
Plan(p) ==
    /\ pc[p] = "fetch"
    /\ LET o == run[p].opts
           filtered == [k \in {x \in DOMAIN remote : ShouldSync(cfg, x)} |-> remote[k]]
           loaded == localFile
           added == DiffAdded(filtered, loaded)
           modified == DiffModified(filtered, loaded)
           heal == HealSet(filtered, loaded, added \cup modified)
           local == [k \in (DOMAIN loaded) \ heal |-> loaded[k]]
       IN  /\ tmp' = TempAfterPlan(o)
           /\ \E a \in Perms(added), h \in Perms(heal), m \in Perms(modified),
                 d \in Perms(DiffDeleted(filtered, loaded)) :
                LET q == a \o h \o m
                IN  /\ run' = [run EXCEPT ![p].filtered = filtered, ![p].local = local,
                                          ![p].deleted = d, ![p].queue = q, ![p].idx = 1,
                                          ![p].threshold = ResolveThreshold(o.SaveThreshold),
                                          ![p].result.Downloaded = IF o.DryRun THEN q ELSE <<>>]
                    /\ pc' = [pc EXCEPT ![p] = IF o.DryRun THEN "delete"
                                               ELSE IF UseParallel(o, q) THEN "par" ELSE "seq"]
                    /\ chans' = [chans EXCEPT ![p].jobs = IF ~o.DryRun /\ UseParallel(o, q) THEN q ELSE <<>>]
                    /\ task' = [task EXCEPT ![p] = [t \in Threads |->
                                  IF ~o.DryRun /\ UseParallel(o, q) /\ t \in 1..o.Workers
                                    THEN [IdleTask EXCEPT !.st = "recv"] ELSE IdleTask]]
    /\ UNCHANGED <<remote, cfg, lockFile, disk, localFile, holds, cancelled, hist, others>>

\* ------------------------------------------- retry.WithBackoff + downloadOne
\* WithBackoff is entered for key: the loop runs while attempt <= maxRetries,
\* and with no iteration at all the function returns err, still nil
WithBackoffEntry(key, maxRetries, late) ==
    [st |-> IF 0 <= maxRetries THEN "call" ELSE "ret", key |-> key, attempt |-> 0, err |-> "nil",
     late |-> late]

\* variant: the loop gives up one attempt early
AttemptFailedEarly(tk, maxRetries, e) ==
    [tk EXCEPT !.st = IF tk.attempt + 1 >= maxRetries THEN "ret" ELSE "backoff", !.err = e]

\* fn returned error e in attempt tk.attempt: break on the last attempt, else wait
AttemptFailed(tk, maxRetries, e) ==
    [tk EXCEPT !.st = IF tk.attempt = maxRetries THEN "ret" ELSE "backoff", !.err = e]

\* fn returned nil: WithBackoff returns nil
AttemptSucceeded(tk) == [tk EXCEPT !.st = "ret", !.err = "nil"]

\* the select took "case <-time.After(delay)": the loop goes on with attempt + 1
NextAttempt(tk) == [tk EXCEPT !.st = "call", !.attempt = @ + 1]

\* variant: on cancellation WithBackoff returns err, the operation's error
CancelledReturnsErr(tk) == [tk EXCEPT !.st = "ret"]

\* the select took "case <-ctx.Done()": WithBackoff returns ctx.Err()
CancelledReturn(tk) == [tk EXCEPT !.st = "ret", !.err = "context canceled"]

Running(p) == pc[p] \in {"seq", "par"}

\* variant: client.DownloadFile writes straight to the final path
DownloadTargetFinal(key) == <<"disk", key>>

\* the path client.DownloadFile is told to write to
DownloadTarget(key) == <<"tmp", key>>

\* the two trees of files, written at a target
WriteFile(target, content) ==
    /\ tmp' = IF target[1] = "tmp" THEN [tmp EXCEPT ![target[2]] = content] ELSE tmp
    /\ disk' = IF target[1] = "disk" THEN [disk EXCEPT ![target[2]] = content] ELSE disk

\* downloadOne (os.MkdirAll is taken to succeed) calls client.DownloadFile(key,
\* tmpPath): the request fails and downloadOne removes tmpPath, or the file is
\* created and bytes start to arrive
DownloadFileCall(p, t) ==
    /\ Running(p) /\ task[p][t].st = "call"
    /\ hist' = [hist EXCEPT ![p].calls = @ \cup {task[p][t].key}]
    /\ \/ /\ tmp' = [tmp EXCEPT ![task[p][t].key] = NoFile]
          /\ disk' = disk
          /\ task' = [task EXCEPT ![p][t] = AttemptFailed(@, run[p].opts.MaxRetries, "failed")]
       \/ /\ WriteFile(DownloadTarget(task[p][t].key), Partial)
          /\ task' = [task EXCEPT ![p][t].st = "writing"]
    /\ UNCHANGED <<remote, cfg, lockFile, localFile, holds, pc, run, chans, cancelled, others>>

\* client.DownloadFile copies the whole object and returns nil
DownloadFileDone(p, t) ==
    /\ Running(p) /\ task[p][t].st = "writing"
    /\ WriteFile(DownloadTarget(task[p][t].key), run[p].filtered[task[p][t].key].MD5)
    /\ task' = [task EXCEPT ![p][t].st = "rename"]
    /\ UNCHANGED <<remote, cfg, lockFile, localFile, holds, pc, run, chans, cancelled, hist, others>>

\* what downloadOne does to the temp file when a step after its creation fails
TempAfterFailure(key) == [tmp EXCEPT ![key] = NoFile]

\* client.DownloadFile fails after partial bytes: downloadOne removes tmpPath
DownloadFileAbort(p, t) ==
    /\ Running(p) /\ task[p][t].st = "writing"
    /\ tmp' = TempAfterFailure(task[p][t].key)
    /\ task' = [task EXCEPT ![p][t] = AttemptFailed(@, run[p].opts.MaxRetries, "failed")]
    /\ UNCHANGED <<remote, cfg, lockFile, disk, localFile, holds, pc, run, chans, cancelled, hist, others>>

\* os.Rename(tmpPath, localPath) succeeds: downloadOne returns nil
RenameOK(p, t) ==
    /\ Running(p) /\ task[p][t].st = "rename"
    /\ disk' = [disk EXCEPT ![task[p][t].key] = tmp[task[p][t].key]]
    /\ tmp' = [tmp EXCEPT ![task[p][t].key] = NoFile]
    /\ task' = [task EXCEPT ![p][t] = AttemptSucceeded(@)]
    /\ hist' = [hist EXCEPT ![p].ok = @ \cup {task[p][t].key}]
    /\ UNCHANGED <<remote, cfg, lockFile, localFile, holds, pc, run, chans, cancelled, others>>

\* os.Rename fails: downloadOne removes tmpPath
RenameFail(p, t) ==
    /\ Running(p) /\ task[p][t].st = "rename"
    /\ tmp' = TempAfterFailure(task[p][t].key)
    /\ task' = [task EXCEPT ![p][t] = AttemptFailed(@, run[p].opts.MaxRetries, "failed")]
    /\ UNCHANGED <<remote, cfg, lockFile, disk, localFile, holds, pc, run, chans, cancelled, hist, others>>

\* WithBackoff's select: the delay elapses, ctx.Done() not being ready (a
\* goroutine parked in select takes the case that becomes ready first), and the
\* next attempt starts
BackoffElapsed(p, t) ==
    /\ Running(p) /\ task[p][t].st = "backoff"
    /\ ~cancelled[p]
    /\ task' = [task EXCEPT ![p][t] = NextAttempt(@)]
    /\ UNCHANGED <<remote, cfg, lockFile, disk, tmp, localFile, holds, pc, run, chans, cancelled, hist, others>>

\* WithBackoff's select: ctx.Done() is ready, ctx.Err() is returned
BackoffCancelled(p, t) ==
    /\ Running(p) /\ task[p][t].st = "backoff"
    /\ cancelled[p]
    /\ task' = [task EXCEPT ![p][t] = CancelledReturn(@)]
    /\ UNCHANGED <<remote, cfg, lockFile, disk, tmp, localFile, holds, pc, run, chans, cancelled, hist, others>>

\* -------------------------------------------------------- progress.Reporter
NoCounts == [downloaded |-> 0, deleted |-> 0, retained |-> 0, errors |-> 0, skipped |-> 0]

\* a progress.Event about one file
Event(type, file, size) == [type |-> type, file |-> file, size |-> size, counts |-> NoCounts]

\* Reporter.Emit under its mutex: one more line; "if opts.Progress != nil"
Emit(o, events, e) == IF o.Progress THEN Append(events, e) ELSE events

\* the summary event of Done(len(Downloaded), len(Deleted), len(Retained),
\* len(Errors), Skipped)
DoneEvent(result) ==
    [type |-> "done", file |-> "", size |-> 0,
     counts |-> [downloaded |-> Len(result.Downloaded), deleted |-> Len(result.Deleted),
                 retained |-> Len(result.Retained), errors |-> Len(result.Errors),
                 skipped |-> result.Skipped]]

\* variant: a failed key gets no event
ReportOutcomeOfSuccess(o, events, key, err) ==
    IF err = "nil" THEN Emit(o, events, Event("complete", key, 0)) ELSE events

\* prog.FileError(key, err) or prog.Complete(key) in the loop body
ReportOutcome(o, events, key, err) ==
    Emit(o, events, Event(IF err = "nil" THEN "complete" ELSE "error", key, 0))

\* ------------------------------------------------ handling one key's outcome
\* whether the loop commits the key: the transfer returned no error
Committed(err) == err = "nil"

\* variant: the loop body drops a failed key instead of recording it
HandledDropsError(rn, key, err) ==
    IF ~Committed(err)
      THEN rn
      ELSE [rn EXCEPT !.local = MapSet(@, key, rn.filtered[key]),
                      !.result.Downloaded = Append(@, key),
                      !.unsaved = @ + rn.filtered[key].Size]

\* the run's locals after the loop body has handled (key, err), before a save
Handled(rn, key, err) ==
    IF ~Committed(err)
      THEN [rn EXCEPT !.result.Errors = Append(@, [key |-> key, err |-> err])]
      ELSE [rn EXCEPT !.local = MapSet(@, key, rn.filtered[key]),
                      !.result.Downloaded = Append(@, key),
                      !.unsaved = @ + rn.filtered[key].Size]

\* the mid-sync save is due
SaveDue(rn, err) == Committed(err) /\ rn.unsaved >= rn.threshold

\* the part of the loop body shared by downloadSequential and downloadParallel:
\* record the outcome, and once unsavedBytes reaches the threshold call SaveJSON
\* (its failure is only logged) and reset the counter
HandleOutcome(p, key, err, rest) ==
    /\ LET rn == Handled(rest, key, err)
       IN  IF SaveDue(rn, err)
             THEN /\ run' = [run EXCEPT ![p] = [rn EXCEPT !.unsaved = 0]]
                  /\ \/ localFile' = rn.local
                     \/ localFile' = localFile
             ELSE /\ run' = [run EXCEPT ![p] = rn]
                  /\ localFile' = localFile
    /\ hist' = [hist EXCEPT ![p].events = ReportOutcome(rest.opts, @, key, err)]

\* ------------------------------------------------------- downloadSequential
SeqNext(p) ==
    /\ pc[p] = "seq" /\ task[p][0].st = "idle"
    /\ IF run[p].idx > Len(run[p].queue)
         THEN /\ pc' = [pc EXCEPT ![p] = "delete"]
              /\ run' = [run EXCEPT ![p].idx = 1]
              /\ task' = task
              /\ hist' = hist
         ELSE /\ task' = [task EXCEPT ![p][0] =
                            WithBackoffEntry(run[p].queue[run[p].idx], run[p].opts.MaxRetries, cancelled[p])]
              /\ hist' = [hist EXCEPT ![p].events =
                            Emit(run[p].opts, @, Event("start", run[p].queue[run[p].idx],
                                                       run[p].filtered[run[p].queue[run[p].idx]].Size))]
              /\ UNCHANGED <<pc, run>>
    /\ UNCHANGED <<remote, cfg, lockFile, disk, tmp, localFile, holds, chans, cancelled, others>>

SeqHandle(p) ==
    /\ pc[p] = "seq" /\ task[p][0].st = "ret"
    /\ HandleOutcome(p, task[p][0].key, task[p][0].err, [run[p] EXCEPT !.idx = @ + 1])
    /\ task' = [task EXCEPT ![p][0] = IdleTask]
    /\ UNCHANGED <<remote, cfg, lockFile, disk, tmp, holds, pc, chans, cancelled, others>>

\* --------------------------------------------------------- downloadParallel
\* a worker's "for key := range jobs": the next key, or the closed channel
WorkerRecv(p, w) ==
    /\ pc[p] = "par" /\ task[p][w].st = "recv"
    /\ IF chans[p].jobs # <<>>
         THEN /\ task' = [task EXCEPT ![p][w] =
                            IF run[p].opts.Progress
                              THEN [IdleTask EXCEPT !.st = "start", !.key = Head(chans[p].jobs)]
                              ELSE WithBackoffEntry(Head(chans[p].jobs), run[p].opts.MaxRetries,
                                                    cancelled[p])]
              /\ chans' = [chans EXCEPT ![p].jobs = Tail(@)]
         ELSE /\ task' = [task EXCEPT ![p][w].st = "exit"]
              /\ chans' = chans
    /\ UNCHANGED <<remote, cfg, lockFile, disk, tmp, localFile, holds, pc, run, cancelled, hist, others>>

\* a worker with a Reporter: opts.Progress.Start(key, entry.Size), then the
\* call of WithBackoff
WorkerStart(p, w) ==
    /\ pc[p] = "par" /\ task[p][w].st = "start"
    /\ hist' = [hist EXCEPT ![p].events =
                  Emit(run[p].opts, @, Event("start", task[p][w].key,
                                             run[p].filtered[task[p][w].key].Size))]
    /\ task' = [task EXCEPT ![p][w] =
                  WithBackoffEntry(task[p][w].key, run[p].opts.MaxRetries, cancelled[p])]
    /\ UNCHANGED <<remote, cfg, lockFile, disk, tmp, localFile, holds, pc, run, chans, cancelled, others>>

\* variant: the worker's result does not carry the error
ParResultNoErr(tk) == [key |-> tk.key, err |-> "nil"]

\* the downloadResult a worker builds from its finished call
ParResult(tk) == [key |-> tk.key, err |-> tk.err]

\* variant: the worker records its outcome itself instead of sending it
WorkerSendCommits(p, w) ==
    /\ pc[p] = "par" /\ w # 0 /\ task[p][w].st = "ret"
    /\ HandleOutcome(p, task[p][w].key, task[p][w].err, run[p])
    /\ chans' = chans
    /\ task' = [task EXCEPT ![p][w] = [IdleTask EXCEPT !.st = "recv"]]
    /\ UNCHANGED <<remote, cfg, lockFile, disk, tmp, holds, pc, cancelled, others>>

\* results <- downloadResult{key, entry, err}
WorkerSend(p, w) ==
    /\ pc[p] = "par" /\ w # 0 /\ task[p][w].st = "ret"
    /\ chans' = [chans EXCEPT ![p].results = Append(@, ParResult(task[p][w]))]
    /\ task' = [task EXCEPT ![p][w] = [IdleTask EXCEPT !.st = "recv"]]
    /\ UNCHANGED <<remote, cfg, lockFile, disk, tmp, localFile, holds, pc, run, cancelled, hist, others>>

\* the coordinator's "for dr := range results"
Collect(p) ==
    /\ pc[p] = "par" /\ chans[p].results # <<>>
    /\ HandleOutcome(p, Head(chans[p].results).key, Head(chans[p].results).err, run[p])
    /\ chans' = [chans EXCEPT ![p].results = Tail(@)]
    /\ UNCHANGED <<remote, cfg, lockFile, disk, tmp, holds, pc, task, cancelled, others>>

\* wg.Wait() has returned, results is closed and drained
ParDone(p) ==
    /\ pc[p] = "par" /\ chans[p].results = <<>>
    /\ \A w \in 1..run[p].opts.Workers : task[p][w].st = "exit"
    /\ pc' = [pc EXCEPT ![p] = "delete"]
    /\ run' = [run EXCEPT ![p].idx = 1]
    /\ task' = [task EXCEPT ![p] = [t \in Threads |-> IdleTask]]
    /\ UNCHANGED <<remote, cfg, lockFile, disk, tmp, localFile, holds, chans, cancelled, hist, others>>

\* ------------------------------------------------------ Run: deletion, save
\* variant: the NoDelete option is ignored
DeleteAllowedByConfig(c, o) == c.Delete

DeleteAllowed(c, o) == c.Delete /\ ~o.NoDelete

\* one iteration of "for _, key := range diff.Deleted"
DeleteStep(p) ==
    /\ pc[p] = "delete" /\ run[p].idx <= Len(run[p].deleted)
    /\ LET key == run[p].deleted[run[p].idx]
           rn == [run[p] EXCEPT !.idx = @ + 1]
       IN  IF rn.opts.DryRun
             THEN /\ run' = [run EXCEPT ![p] = [rn EXCEPT !.result.Deleted = Append(@, key)]]
                  /\ disk' = disk
                  /\ hist' = hist
           ELSE IF ~DeleteAllowed(cfg, rn.opts)
             THEN /\ run' = [run EXCEPT ![p] = [rn EXCEPT !.result.Retained = Append(@, key)]]
                  /\ disk' = disk
                  /\ hist' = [hist EXCEPT ![p].events = Emit(rn.opts, @, Event("retain", key, 0))]
           ELSE \/ /\ disk[key] # NoFile     \* os.Remove fails, not with IsNotExist
                   /\ run' = [run EXCEPT ![p] = [rn EXCEPT !.result.Errors =
                                                    Append(@, [key |-> key, err |-> "delete"])]]
                   /\ disk' = disk
                   /\ hist' = hist
                \/ /\ disk' = [disk EXCEPT ![key] = NoFile]
                   /\ run' = [run EXCEPT ![p] = [rn EXCEPT !.local = MapDelete(@, key),
                                                           !.result.Deleted = Append(@, key)]]
                   /\ hist' = [hist EXCEPT ![p].events = Emit(rn.opts, @, Event("delete", key, 0))]
    /\ UNCHANGED <<remote, cfg, lockFile, tmp, localFile, holds, pc, task, chans, cancelled, others>>

\* after the deletion loop: Skipped, then the final SaveJSON unless DryRun
Finish(p) ==
    /\ pc[p] = "delete" /\ run[p].idx > Len(run[p].deleted)
    /\ pc' = [pc EXCEPT ![p] = "done"]
    /\ holds' = [holds EXCEPT ![p] = FALSE]
    /\ LET skipped == Cardinality(DOMAIN run[p].filtered) - Len(run[p].queue)
       IN  IF run[p].opts.DryRun
             THEN /\ run' = [run EXCEPT ![p].result.Skipped = skipped]
                  /\ localFile' = localFile
             ELSE \/ /\ localFile' = run[p].local
                     /\ run' = [run EXCEPT ![p].result.Skipped = skipped]
                  \/ /\ localFile' = localFile
                     /\ run' = [run EXCEPT ![p].result.Skipped = skipped,
                                           ![p].fatal = "saving local manifest"]
    /\ hist' = [hist EXCEPT ![p].events = Emit(run[p].opts, @, DoneEvent(run'[p].result))]
    /\ UNCHANGED <<remote, cfg, lockFile, disk, tmp, task, chans, cancelled, others>>

\* ------------------------------------------------------------- environment
\* the process is killed: the kernel drops its flock, its goroutines are gone
Crash(p) ==
    /\ pc[p] \in {"lock", "fetch", "seq", "par", "delete"}
    /\ pc' = [pc EXCEPT ![p] = "done"]
    /\ holds' = [holds EXCEPT ![p] = FALSE]
    /\ run' = [run EXCEPT ![p] = [IdleRun EXCEPT !.opts = run[p].opts, !.fatal = "killed", !.runs = run[p].runs]]
    /\ task' = [task EXCEPT ![p] = [t \in Threads |-> IdleTask]]
    /\ chans' = [chans EXCEPT ![p] = IdleChans]
    /\ UNCHANGED <<remote, cfg, lockFile, disk, tmp, localFile, cancelled, hist, others>>

\* the caller cancels the context it passed to Run.  Run reads ctx only in
\* WithBackoff's select, so a cancellation is modelled at the moments it can
\* matter: while a key is still waiting to be started, or during a backoff wait
Cancel(p) ==
    /\ ~cancelled[p]
    /\ \/ \E t \in Threads : task[p][t].st = "backoff"
       \/ pc[p] = "seq" /\ run[p].idx <= Len(run[p].queue)
       \/ pc[p] = "par" /\ chans[p].jobs # <<>>
    /\ cancelled' = [cancelled EXCEPT ![p] = TRUE]
    /\ UNCHANGED <<remote, cfg, lockFile, disk, tmp, localFile, holds, pc, run, task, chans, hist, others>>

\* between two runs the user deletes a file from the emulation path
UserDelete(k) ==
    /\ \A p \in Procs : pc[p] \in {"idle", "done"}
    /\ \E p \in Procs : pc[p] = "done" /\ run[p].runs < MaxRuns
    /\ disk[k] # NoFile
    /\ disk' = [disk EXCEPT ![k] = NoFile]
    /\ hist' = [p \in Procs |-> [hist[p] EXCEPT !.drift = TRUE]]
    /\ UNCHANGED <<remote, cfg, lockFile, tmp, localFile, holds, pc, run, task, chans, cancelled, others>>

\* ----------------------------------------------------------- specifications
\* downloadOne, by goroutine t of process p
DownloadStep(p, t) ==
    \/ DownloadFileCall(p, t)
    \/ DownloadFileDone(p, t)
    \/ DownloadFileAbort(p, t)
    \/ RenameOK(p, t)
    \/ RenameFail(p, t)

\* Run with the sequential download path and without retries
CoreStep(p) ==
    \/ AcquireLock(p)
    \/ FetchFail(p)
    \/ Plan(p)
    \/ SeqNext(p)
    \/ SeqHandle(p)
    \/ DeleteStep(p)
    \/ Finish(p)
    \/ Crash(p)
    \/ \E t \in Threads : DownloadStep(p, t)

\* the retries of WithBackoff, the worker pool and the cancellation
PoolStep(p) ==
    \/ Collect(p)
    \/ ParDone(p)
    \/ Cancel(p)
    \/ \E t \in Threads : \/ WorkerRecv(p, t)
                           \/ WorkerSend(p, t)
                           \/ BackoffElapsed(p, t)
                           \/ BackoffCancelled(p, t)

RunStep(p) == CoreStep(p) \/ PoolStep(p)

\* one Run call of one process, from any starting situation
Next ==
    \/ Start(1, OptionChoices, 1)
    \/ RunStep(1)

Spec == Init /\ [][Next]_vars

\* one Run call with a progress Reporter attached (--progress-json)
ProgressChoices == {[o EXCEPT !.Progress = TRUE] : o \in {c \in OptionChoices : c.SaveThreshold = 0}}

NextProgress ==
    \/ Start(1, ProgressChoices, 1)
    \/ RunStep(1)
    \/ \E w \in 1..MaxWorkers : WorkerStart(1, w)

SpecProgress == Init /\ [][NextProgress]_vars

\* one device over time: Run is called again and again, and between two runs
\* the user may delete files
HealChoices ==
    { o \in OptionChoices :
        /\ o.SaveThreshold = 0
        /\ ~o.NoDelete
        /\ o.Workers = 1 \/ o.MaxRetries = MaxRetry }

NextHeal ==
    \/ Start(1, HealChoices, MaxRuns)
    \/ RunStep(1)
    \/ \E k \in Keys : UserDelete(k)

SpecHeal == Init /\ [][NextHeal]_vars

\* two processes on one device, each calling Run once
LockChoices ==
    { o \in OptionChoices : o.SaveThreshold = 0 /\ ~o.NoDelete /\ o.Workers = 1 /\ o.MaxRetries = 0 }

\* the situations tried with two processes
LockWorlds ==
    { <<"v2", NoFile, NoFile>>, <<"v2", "v1", "v1">>, <<NoFile, "v1", "v1">> }

InitLock == InitWith(LockWorlds, {c \in CfgChoices : c.Delete /\ c.SyncExclude = {}})

\* process 1 calls Run; process 2 calls Run while that call is in progress
StartLock(p) ==
    /\ p = 1 \/ pc[1] \notin {"idle", "done"}
    /\ Start(p, LockChoices, 1)

NextLock == \E p \in Procs : StartLock(p) \/ CoreStep(p)

SpecLock == InitLock /\ [][NextLock]_vars

\* ------------------------------------------- retry.WithBackoff on its own
\* what fn may return besides nil
RetryErrors == {"errA", "errB"}

\* the sync engine is not in use
EngineIdle ==
    /\ localFile = EmptyMap
    /\ cfg = [SyncDirs |-> {}, SyncExclude |-> {}, Delete |-> FALSE]
    /\ disk = [k \in Keys |-> NoFile] /\ tmp = [k \in Keys |-> NoFile]
    /\ holds = [p \in Procs |-> FALSE]
    /\ lockFile = FALSE
    /\ pc = [p \in Procs |-> "idle"]
    /\ run = [p \in Procs |-> IdleRun]
    /\ task = [p \in Procs |-> [t \in Threads |-> IdleTask]]
    /\ chans = [p \in Procs |-> IdleChans]
    /\ cancelled = [p \in Procs |-> FALSE]
    /\ hist = [p \in Procs |-> NoHist]

\* neither the sync engine nor the bucket is in use
DeviceIdle == remote = EmptyMap /\ EngineIdle

\* a caller is about to call WithBackoff(ctx, maxRetries, fn), for any
\* maxRetries and with ctx cancelled already or not
InitRetry ==
    /\ DeviceIdle
    /\ lim = IdleLimiter /\ UploaderIdle /\ RestIdle
    /\ \E m \in (-1)..(MaxRetry + 2), c \in BOOLEAN :
          wb = [IdleBackoff EXCEPT !.tk.st = "entry", !.maxRetries = m, !.ctxDone = c]

\* the call: "var err error" and the first test of attempt <= maxRetries
RetryCall ==
    /\ wb.tk.st = "entry"
    /\ wb' = [wb EXCEPT !.tk = WithBackoffEntry(K1, wb.maxRetries, wb.ctxDone)]
    /\ UNCHANGED <<remote, device, alone, lim, uploader>>

\* "if err = fn(); err == nil { return nil }" and the break on the last attempt
RetryInvoke ==
    /\ wb.tk.st = "call"
    /\ \E r \in {"nil"} \cup RetryErrors :
          LET tk == IF r = "nil" THEN AttemptSucceeded(wb.tk) ELSE AttemptFailed(wb.tk, wb.maxRetries, r)
          IN  wb' = [wb EXCEPT !.tk = tk, !.results = Append(@, r),
                               !.waits = IF tk.st = "backoff" THEN @ + 1 ELSE @]
    /\ UNCHANGED <<remote, device, alone, lim, uploader>>

\* the select: the delay elapses before ctx is cancelled
RetryDelayElapsed ==
    /\ wb.tk.st = "backoff" /\ ~wb.ctxDone
    /\ wb' = [wb EXCEPT !.tk = NextAttempt(@)]
    /\ UNCHANGED <<remote, device, alone, lim, uploader>>

\* the select: ctx.Done() is ready
RetryCtxDone ==
    /\ wb.tk.st = "backoff" /\ wb.ctxDone
    /\ wb' = [wb EXCEPT !.tk = CancelledReturn(@)]
    /\ UNCHANGED <<remote, device, alone, lim, uploader>>

\* the caller cancels ctx while WithBackoff is running
RetryCancel ==
    /\ wb.tk.st \in {"call", "backoff"} /\ ~wb.ctxDone
    /\ wb' = [wb EXCEPT !.ctxDone = TRUE]
    /\ UNCHANGED <<remote, device, alone, lim, uploader>>

NextRetry == RetryCall \/ RetryInvoke \/ RetryDelayElapsed \/ RetryCtxDone \/ RetryCancel

SpecRetry == InitRetry /\ [][NextRetry]_vars

\* ------------------------------------------------------ ratelimit.Limiter
\* the transfers sharing one Limiter
Readers == 1..MaxWorkers
\* a reader that is not inside time.Sleep
Awake == [until |-> 0, n |-> 0]
\* the sizes n of one Read, at most the bucket
ChunkSizes == 1..LimRate

Min(a, b) == IF a < b THEN a ELSE b

\* NewLimiter(LimRate) at tick 0; served[t] (history) is the number of chunks
\* for which wait returned at tick t
NewLimiter ==
    [rate |-> LimRate, available |-> LimRate, last |-> 0, now |-> 0,
     sleep |-> [r \in Readers |-> Awake], served |-> [t \in 0..MaxTick |-> 0]]

InitLimiter ==
    /\ DeviceIdle
    /\ wb = IdleBackoff /\ UploaderIdle /\ RestIdle
    /\ lim = NewLimiter

\* the tokens after the refill of wait: elapsed ticks, capped at the bucket
Refilled(l) == Min(l.rate, l.available + (l.now - l.last))

\* wait(n) from the first Lock to the return or to the Unlock before Sleep:
\* refill, debit, and with a deficit sleep deficit/rate seconds
LimiterWait(r, n) ==
    /\ lim.rate > 0 /\ lim.sleep[r] = Awake
    /\ LET left == Refilled(lim) - n
       IN  lim' = IF left >= 0
                    THEN [lim EXCEPT !.last = lim.now, !.available = left,
                                     !.served[lim.now] = @ + n]
                    ELSE [lim EXCEPT !.last = lim.now, !.available = left,
                                     !.sleep[r] = [until |-> lim.now - left, n |-> n]]
    /\ UNCHANGED <<remote, device, alone, wb, uploader>>

\* time.Sleep is over, sleepTime after it began: Lock, l.last = time.Now(),
\* l.available = 0, and wait returns
LimiterWake(r) ==
    /\ lim.sleep[r] # Awake /\ lim.now = lim.sleep[r].until
    /\ lim' = [lim EXCEPT !.last = lim.now, !.available = 0, !.sleep[r] = Awake,
                          !.served[lim.now] = @ + lim.sleep[r].n]
    /\ UNCHANGED <<remote, device, alone, wb, uploader>>

\* the clock advances by one tick; a sleeper whose time has come wakes first
\* (time.Sleep is taken to return on time)
LimiterTick ==
    /\ lim.rate > 0 /\ lim.now < MaxTick
    /\ \A r \in Readers : lim.sleep[r] = Awake \/ lim.sleep[r].until > lim.now
    /\ lim' = [lim EXCEPT !.now = @ + 1]
    /\ UNCHANGED <<remote, device, alone, wb, uploader>>

NextLimiter ==
    \/ \E r \in Readers, n \in ChunkSizes : LimiterWait(r, n)
    \/ \E r \in Readers : LimiterWake(r)
    \/ LimiterTick

SpecLimiter == InitLimiter /\ [][NextLimiter]_vars

\* ------------------------------------------------------------- upload.Run
\* a hash cache entry for a file of content c modified at time mtime
CacheEntry(c, mtime) == [Size |-> SizeOf(c), Mtime |-> mtime, MD5 |-> c]
\* no cache entry for a key
NoCacheEntry == [Size |-> 0, Mtime |-> "never", MD5 |-> NoFile]
\* the modification time of the source file of key k
ModTime(k) == "t1"

\* the (source file, cache entry, bucket object and manifest entry) situations
\* one key can start in
UploadWorlds ==
    { <<"v1", NoCacheEntry, NoFile>>,               \* new file, never hashed
      <<"v1", CacheEntry("v1", "t1"), NoFile>>,     \* new for the bucket, hashed before
      <<"v1", CacheEntry("v1", "t1"), "v1">>,       \* unchanged
      <<"v1", CacheEntry("v1", "t0"), "v1">>,       \* same content, modified later
      <<"v2", CacheEntry("v1", "t1"), "v1">>,       \* modified
      <<NoFile, CacheEntry("v1", "t1"), "v1">>,     \* removed from the source
      <<NoFile, NoCacheEntry, NoFile>> }            \* unknown everywhere

\* Run has not been called: the source directory exists with any files, or it
\* does not exist
InitUpload ==
    /\ EngineIdle
    /\ wb = IdleBackoff /\ lim = IdleLimiter /\ RestIdle
    /\ \E w \in [Keys -> UploadWorlds], e \in BOOLEAN :
          /\ ~e => \A k \in Keys : w[k][1] = NoFile
          /\ tree = [exists |-> e, files |-> [k \in Keys |-> w[k][1]]]
          /\ cacheFile = [k \in {x \in Keys : w[x][2] # NoCacheEntry} |-> w[k][2]]
          /\ objects = [k \in Keys |-> w[k][3]]
          /\ remote = ManifestOf(w, 3)
    /\ up = IdleUp /\ utask = [t \in Threads |-> IdleTask] /\ uchans = IdleChans
    /\ uhist = NoUploadHist

\* buildManifest: the keys of the files found under the sync directories; a
\* directory that does not exist is skipped (HashFile is taken to succeed)
Scanned(tr) == {k \in Keys : tr.exists /\ tr.files[k] # NoFile}

\* variant: lookup compares the sizes only
LookupBySize(cache, k, size, mtime) == k \in DOMAIN cache /\ cache[k].Size = size

\* hashCache.lookup
Lookup(cache, k, size, mtime) ==
    k \in DOMAIN cache /\ cache[k].Size = size /\ cache[k].Mtime = mtime

\* buildManifest: the keys whose hash came from the cache
CacheHitKeys(cache, tr) == {k \in Scanned(tr) : Lookup(cache, k, SizeOf(tr.files[k]), ModTime(k))}

\* buildManifest: the manifest
BuildManifest(cache, tr) ==
    [k \in Scanned(tr) |->
        [Size |-> SizeOf(tr.files[k]),
         MD5 |-> IF k \in CacheHitKeys(cache, tr) THEN cache[k].MD5 ELSE tr.files[k]]]

\* variant: a hashed file is not entered into the cache
CacheNotUpdated(cache, tr) == cache

\* buildManifest: the cache after hashCache.update for every file hashed
CacheAfterScan(cache, tr) ==
    [k \in DOMAIN cache \cup Scanned(tr) |->
        IF k \in Scanned(tr) \ CacheHitKeys(cache, tr)
          THEN CacheEntry(tr.files[k], ModTime(k)) ELSE cache[k]]

\* hashCache.prune to the keys of manifest m
Pruned(cache, m) == [k \in DOMAIN cache \cap DOMAIN m |-> cache[k]]

\* loadHashCache and buildManifest; Run is at the ManifestOnly test
UploadStart(choices, limit) ==
    /\ up.pc \in {"idle", "done"}
    /\ up.runs < limit
    /\ \E o \in choices :
          up' = [IdleUp EXCEPT !.pc = "scanned", !.opts = o, !.runs = up.runs + 1,
                               !.cache = CacheAfterScan(cacheFile, tree),
                               !.new = BuildManifest(cacheFile, tree),
                               !.result.CacheHits = Cardinality(CacheHitKeys(cacheFile, tree))]
    /\ utask' = [t \in Threads |-> IdleTask]
    /\ uchans' = IdleChans
    /\ uhist' = [NoUploadHist EXCEPT !.cache0 = cacheFile, !.remote0 = remote, !.objects0 = objects,
                                     !.prevNew = up.new, !.prevCalls = uhist.calls,
                                     !.prevOK = up.pc = "done" /\ up.fatal = "nil"
                                                /\ ~up.opts.DryRun /\ uhist.saved]
    /\ UNCHANGED <<remote, device, alone, wb, lim, tree, cacheFile, objects>>

\* saveCache: prune, then hashCache.save, whose failure (the file untouched,
\* or left truncated, which loads as an empty cache) is only logged
SaveCache ==
    \/ cacheFile' = Pruned(up.cache, up.new) /\ uhist' = [uhist EXCEPT !.tried = TRUE, !.saved = TRUE]
    \/ cacheFile' \in {cacheFile, EmptyMap} /\ uhist' = [uhist EXCEPT !.tried = TRUE, !.saved = FALSE]

\* variant: the cache is saved in a dry run too
SavesCacheAlways(o) == TRUE

\* "if !opts.DryRun" around saveCache and UploadManifest
SavesCache(o) == ~o.DryRun

\* the ManifestOnly branch up to the UploadManifest call
UploadManifestOnly ==
    /\ up.pc = "scanned" /\ up.opts.ManifestOnly
    /\ LET u == [up EXCEPT !.result.Skipped = Cardinality(DOMAIN up.new)]
       IN  IF SavesCache(up.opts)
             THEN /\ SaveCache
                  /\ up' = [u EXCEPT !.pc = "publish", !.cache = Pruned(up.cache, up.new)]
             ELSE /\ up' = [u EXCEPT !.pc = "done"]
                  /\ UNCHANGED <<cacheFile, uhist>>
    /\ UNCHANGED <<remote, device, alone, wb, lim, tree, objects, utask, uchans>>

\* "opts.Workers > 1 && len(toUpload) > 1"
UseParallelUpload(o, q) == UseParallel(o, q)

\* DownloadManifest (an error means a first upload), ParseJSON, Diff, and the
\* choice of the upload path
UploadPlan ==
    /\ up.pc = "scanned" /\ ~up.opts.ManifestOnly
    /\ \/ /\ up' = [up EXCEPT !.pc = "done", !.fatal = "parsing remote manifest"]
          /\ UNCHANGED <<utask, uchans>>
       \/ \E old \in {remote, EmptyMap} :
          \E a \in Perms(DiffAdded(up.new, old)), m \in Perms(DiffModified(up.new, old)),
             d \in Perms(DiffDeleted(up.new, old)) :
            LET o == up.opts
                q == a \o m
                par == ~o.DryRun /\ UseParallelUpload(o, q)
            IN  /\ up' = [up EXCEPT !.old = old, !.queue = q, !.deleted = d, !.idx = 1,
                                    !.result.Uploaded = IF o.DryRun THEN q ELSE <<>>,
                                    !.pc = IF o.DryRun THEN "delete" ELSE IF par THEN "par" ELSE "seq"]
                /\ uchans' = [uchans EXCEPT !.jobs = IF par THEN q ELSE <<>>]
                /\ utask' = [t \in Threads |->
                              IF par /\ t \in 1..o.Workers
                                THEN [IdleTask EXCEPT !.st = "recv"] ELSE IdleTask]
    /\ UNCHANGED <<remote, device, alone, wb, lim, tree, cacheFile, objects, uhist>>

\* client.UploadFile(ctx, key, localPath): the object is put, or the call fails
UploadFileCall(t) ==
    /\ utask[t].st = "call"
    /\ uhist' = [uhist EXCEPT !.calls = @ \cup {<<"UploadFile", utask[t].key>>},
                              !.late = @ \/ uhist.published > 0]
    /\ \/ /\ objects' = [objects EXCEPT ![utask[t].key] = tree.files[utask[t].key]]
          /\ utask' = [utask EXCEPT ![t] = AttemptSucceeded(@)]
       \/ /\ objects' = objects
          /\ utask' = [utask EXCEPT ![t] = AttemptFailed(@, up.opts.MaxRetries, "failed")]
    /\ UNCHANGED <<remote, device, alone, wb, lim, tree, cacheFile, up, uchans>>

UploadBackoffElapsed(t) ==
    /\ utask[t].st = "backoff" /\ ~up.cancelled
    /\ utask' = [utask EXCEPT ![t] = NextAttempt(@)]
    /\ UNCHANGED <<remote, device, alone, wb, lim, tree, cacheFile, objects, up, uchans, uhist>>

UploadBackoffCancelled(t) ==
    /\ utask[t].st = "backoff" /\ up.cancelled
    /\ utask' = [utask EXCEPT ![t] = CancelledReturn(@)]
    /\ UNCHANGED <<remote, device, alone, wb, lim, tree, cacheFile, objects, up, uchans, uhist>>

\* variant: a failed upload is dropped
UploadHandledSilently(u, key, err) ==
    IF err = "nil" THEN [u EXCEPT !.result.Uploaded = Append(@, key)] ELSE u

\* the loop body of uploadSequential and of the coordinator of uploadParallel
UploadHandled(u, key, err) ==
    IF err = "nil"
      THEN [u EXCEPT !.result.Uploaded = Append(@, key)]
      ELSE [u EXCEPT !.result.Errors = Append(@, [key |-> key, err |-> err])]

\* uploadSequential: the next key, or the end of the loop
UploadSeqNext ==
    /\ up.pc = "seq" /\ utask[0].st = "idle"
    /\ IF up.idx > Len(up.queue)
         THEN /\ up' = [up EXCEPT !.pc = "delete", !.idx = 1]
              /\ utask' = utask
         ELSE /\ utask' = [utask EXCEPT ![0] =
                             WithBackoffEntry(up.queue[up.idx], up.opts.MaxRetries, up.cancelled)]
              /\ up' = up
    /\ UNCHANGED <<remote, device, alone, wb, lim, tree, cacheFile, objects, uchans, uhist>>

UploadSeqHandle ==
    /\ up.pc = "seq" /\ utask[0].st = "ret"
    /\ up' = UploadHandled([up EXCEPT !.idx = @ + 1], utask[0].key, utask[0].err)
    /\ utask' = [utask EXCEPT ![0] = IdleTask]
    /\ UNCHANGED <<remote, device, alone, wb, lim, tree, cacheFile, objects, uchans, uhist>>

\* a worker's "for key := range jobs"
UploadWorkerRecv(w) ==
    /\ w # 0 /\ utask[w].st = "recv"
    /\ IF uchans.jobs # <<>>
         THEN /\ utask' = [utask EXCEPT ![w] =
                             WithBackoffEntry(Head(uchans.jobs), up.opts.MaxRetries, up.cancelled)]
              /\ uchans' = [uchans EXCEPT !.jobs = Tail(@)]
         ELSE /\ utask' = [utask EXCEPT ![w].st = "exit"]
              /\ uchans' = uchans
    /\ UNCHANGED <<remote, device, alone, wb, lim, tree, cacheFile, objects, up, uhist>>

\* "results <- uploadResult{key: key, err: err}"
UploadWorkerSend(w) ==
    /\ w # 0 /\ utask[w].st = "ret"
    /\ uchans' = [uchans EXCEPT !.results = Append(@, [key |-> utask[w].key, err |-> utask[w].err])]
    /\ utask' = [utask EXCEPT ![w] = [IdleTask EXCEPT !.st = "recv"]]
    /\ UNCHANGED <<remote, device, alone, wb, lim, tree, cacheFile, objects, up, uhist>>

\* the coordinator's "for ur := range results"
UploadCollect ==
    /\ up.pc = "par" /\ uchans.results # <<>>
    /\ up' = UploadHandled(up, Head(uchans.results).key, Head(uchans.results).err)
    /\ uchans' = [uchans EXCEPT !.results = Tail(@)]
    /\ UNCHANGED <<remote, device, alone, wb, lim, tree, cacheFile, objects, utask, uhist>>

\* variant: results is closed without waiting for the workers
ResultsClosedEarly(tasks, workers) == TRUE

\* wg.Wait() has returned and results is closed
ResultsClosed(tasks, workers) == \A w \in 1..workers : tasks[w].st = "exit"

\* the range over results ends: closed and drained
UploadParDone ==
    /\ up.pc = "par" /\ uchans.results = <<>>
    /\ ResultsClosed(utask, up.opts.Workers)
    /\ up' = [up EXCEPT !.pc = "delete", !.idx = 1]
    /\ UNCHANGED <<remote, device, alone, wb, lim, tree, cacheFile, objects, utask, uchans, uhist>>

\* one iteration of "for _, key := range diff.Deleted"
UploadDeleteStep ==
    /\ up.pc = "delete" /\ up.idx <= Len(up.deleted)
    /\ LET key == up.deleted[up.idx]
           u == [up EXCEPT !.idx = @ + 1]
       IN  IF u.opts.DryRun
             THEN /\ up' = [u EXCEPT !.result.Deleted = Append(@, key)]
                  /\ UNCHANGED <<objects, uhist>>
             ELSE /\ uhist' = [uhist EXCEPT !.calls = @ \cup {<<"DeleteObject", key>>},
                                            !.late = @ \/ uhist.published > 0]
                  /\ \/ /\ objects' = objects
                        /\ up' = [u EXCEPT !.result.Errors = Append(@, [key |-> key, err |-> "delete"])]
                     \/ /\ objects' = [objects EXCEPT ![key] = NoFile]
                        /\ up' = [u EXCEPT !.result.Deleted = Append(@, key)]
    /\ UNCHANGED <<remote, device, alone, wb, lim, tree, cacheFile, utask, uchans>>

\* after the deletion loop: Skipped, then saveCache unless DryRun
UploadFinish ==
    /\ up.pc = "delete" /\ up.idx > Len(up.deleted)
    /\ LET u == [up EXCEPT !.result.Skipped = Cardinality(DOMAIN up.new) - Len(up.queue)]
       IN  IF SavesCache(up.opts)
             THEN /\ SaveCache
                  /\ up' = [u EXCEPT !.pc = "publish", !.cache = Pruned(up.cache, up.new)]
             ELSE /\ up' = [u EXCEPT !.pc = "done"]
                  /\ UNCHANGED <<cacheFile, uhist>>
    /\ UNCHANGED <<remote, device, alone, wb, lim, tree, objects, utask, uchans>>

\* client.UploadManifest: the manifest is put, or the call fails and Run
\* returns "uploading manifest"
UploadPublish ==
    /\ up.pc = "publish"
    /\ uhist' = [uhist EXCEPT !.published = @ + 1]
    /\ \/ remote' = up.new /\ up' = [up EXCEPT !.pc = "done"]
       \/ remote' = remote /\ up' = [up EXCEPT !.pc = "done", !.fatal = "uploading manifest"]
    /\ UNCHANGED <<device, alone, wb, lim, tree, cacheFile, objects, utask, uchans>>

\* the caller cancels ctx
UploadCancel ==
    /\ up.pc \in {"scanned", "seq", "par", "delete", "publish"} /\ ~up.cancelled
    /\ up' = [up EXCEPT !.cancelled = TRUE]
    /\ UNCHANGED <<remote, device, alone, wb, lim, tree, cacheFile, objects, utask, uchans, uhist>>

UploadStep ==
    \/ UploadManifestOnly \/ UploadPlan
    \/ UploadSeqNext \/ UploadSeqHandle
    \/ UploadCollect \/ UploadParDone
    \/ UploadDeleteStep \/ UploadFinish \/ UploadPublish
    \/ UploadCancel
    \/ \E t \in Threads : \/ UploadFileCall(t)
                          \/ UploadBackoffElapsed(t) \/ UploadBackoffCancelled(t)
                          \/ UploadWorkerRecv(t) \/ UploadWorkerSend(t)

NextUpload == UploadStart(UploadChoices, 1) \/ UploadStep

SpecUpload == InitUpload /\ [][NextUpload]_vars

\* Run called repeatedly, never as a dry run, with the sequential path for any
\* MaxRetries and the parallel path for the largest
RepeatChoices ==
    {o \in UploadChoices : ~o.DryRun /\ (o.Workers = 1 \/ o.MaxRetries = MaxRetry)}

NextReupload == UploadStart(RepeatChoices, MaxRuns) \/ UploadStep

SpecReupload == InitUpload /\ [][NextReupload]_vars

\* ------------------------------------------------------------- sync.Verify
\* a file whose bytes are not those of any version, with the length of "v2"
Rotten == "rotten"
\* info.Size() of a file on disk
FileSize(f) == IF f = Partial THEN 0 ELSE IF f = Rotten THEN SizeOf("v2") ELSE SizeOf(f)
\* manifest.HashFile of a file that can be read
HashOf(f) == f

\* the (remote, local manifest, disk) situations one key can be in when Verify is called
VerifyWorlds ==
    { <<"v2", "v2", "v2">>,         \* in sync
      <<"v2", "v2", NoFile>>,       \* deleted by the user
      <<"v2", "v2", Rotten>>,       \* same length, other bytes
      <<"v2", "v2", Partial>>,      \* truncated
      <<"v2", "v2", "v1">>,         \* another version on disk
      <<"v2", "v1", "v1">>,         \* in sync with an older bucket
      <<NoFile, "v1", "v1">>,       \* gone from the bucket, intact here
      <<NoFile, "v1", NoFile>>,     \* gone from the bucket, deleted by the user
      <<"v2", NoFile, NoFile>> }    \* never synced

\* what one iteration of the range loop does with a key: os.Stat (fault: it
\* fails with an error other than "not exist"), the size test, HashFile
\* (fault: it fails) and the hash test, in this order
VerifyOutcomeSizeOnly(entry, file, fault) ==
    IF fault = "stat" THEN "error"
    ELSE IF file = NoFile THEN "missing"
    ELSE IF FileSize(file) # entry.Size THEN "mismatch"
    ELSE IF fault = "hash" THEN "error"
    ELSE "ok"
VerifyOutcome(entry, file, fault) ==
    IF fault = "stat" THEN "error"
    ELSE IF file = NoFile THEN "missing"
    ELSE IF FileSize(file) # entry.Size THEN "mismatch"
    ELSE IF fault = "hash" THEN "error"
    ELSE IF HashOf(file) # entry.MD5 THEN "mismatch"
    ELSE "ok"

\* Verify up to the range loop: LoadJSON reads the manifest or fails
VerifyStart ==
    /\ ver.pc = "idle"
    /\ \/ ver' = [ver EXCEPT !.pc = "loop", !.local = localFile, !.todo = DOMAIN localFile,
                             !.local0 = localFile]
       \/ ver' = [ver EXCEPT !.pc = "done", !.fatal = "loading local manifest"]
    /\ UNCHANGED <<remote, device, wb, lim, uploader, sav, dif, hc, web, pool, more>>

\* one iteration of "for key, entry := range local.Files", in any order
VerifyEntry(k) ==
    /\ ver.pc = "loop" /\ k \in ver.todo
    /\ \E fault \in {"none", "stat", "hash"} :
          LET o == VerifyOutcome(ver.local[k], disk[k], fault)
              r == ver.result
          IN  ver' = [ver EXCEPT
                  !.todo = @ \ {k},
                  !.failed = IF o = "error" THEN @ \cup {k} ELSE @,
                  !.toRemove = IF o \in {"missing", "mismatch"} THEN Append(@, k) ELSE @,
                  !.result = [OK |-> IF o = "ok" THEN Append(r.OK, k) ELSE r.OK,
                              Mismatch |-> IF o = "mismatch" THEN Append(r.Mismatch, k) ELSE r.Mismatch,
                              Missing |-> IF o = "missing" THEN Append(r.Missing, k) ELSE r.Missing,
                              Errors |-> IF o = "error" THEN Append(r.Errors, k) ELSE r.Errors]]
    /\ UNCHANGED <<remote, device, wb, lim, uploader, sav, dif, hc, web, pool, more>>

\* after the loop: the entries of toRemove are deleted and the manifest is
\* saved, when there are any; SaveJSON replaces the file or fails
VerifySave ==
    /\ ver.pc = "loop" /\ ver.todo = {}
    /\ LET kept == [k \in DOMAIN ver.local \ Range(ver.toRemove) |-> ver.local[k]]
       IN  IF ver.toRemove = <<>>
           THEN /\ ver' = [ver EXCEPT !.pc = "done"]
                /\ UNCHANGED localFile
           ELSE \/ /\ ver' = [ver EXCEPT !.pc = "done", !.local = kept]
                   /\ localFile' = kept
                \/ /\ ver' = [ver EXCEPT !.pc = "done", !.local = kept,
                                         !.fatal = "saving updated manifest"]
                   /\ UNCHANGED localFile
    /\ UNCHANGED <<remote, cfg, lockFile, disk, tmp, holds, pc, run, task, chans, cancelled, hist,
                   wb, lim, uploader, sav, dif, hc, web, pool, more>>

VerifyStep == VerifyStart \/ (\E k \in Keys : VerifyEntry(k)) \/ VerifySave

\* one Verify call on a device in any of the situations of VerifyWorlds
InitVerify ==
    InitWith(VerifyWorlds, {c \in CfgChoices : c.SyncExclude = {}})

NextVerify == VerifyStep

SpecVerify == InitVerify /\ [][NextVerify]_vars

\* Verify, then one non-dry-run Sync on the same device
VerifySyncChoices == {o \in HealChoices : ~o.DryRun}

StartAfterVerify ==
    /\ ver.pc = "done"
    /\ Start(1, VerifySyncChoices, 1)

NextVerifySync ==
    \/ VerifyStep
    \/ StartAfterVerify
    \/ RunStep(1)

SpecVerifySync == InitVerify /\ [][NextVerifySync]_vars

\* ------------------------------------------------ Manifest.SaveJSON, by step
\* the manifests tried: each key absent or with either version
SaveManifests == {ManifestOf(w, 1) : w \in [Keys -> {<<NoFile>>, <<"v1">>, <<"v2">>}]}

\* the path os.WriteFile is given: the sibling temp path
WritePathTarget == "target"
WritePath == "temp"

\* SaveJSON(path) has just been called with any manifest, the target absent or
\* holding any manifest, and no temp file or one left by an interrupted save
InitSave ==
    /\ DeviceIdle
    /\ wb = IdleBackoff /\ lim = IdleLimiter /\ UploaderIdle
    /\ ver = IdleVerify /\ dif = IdleDiff /\ hc = IdleCache /\ web = IdleWeb /\ pool = IdlePool
    /\ MoreIdle
    /\ \E n \in SaveManifests, o \in {AbsentFile} \cup {WholeFile(m) : m \in SaveManifests},
          t \in {AbsentFile} \cup {PartFile(m) : m \in SaveManifests} :
          sav = [IdleSave EXCEPT !.pc = "mkdir", !.new = n, !.target = o, !.old = o, !.temp = t]

\* SaveJSON returns err
SaveReturn(err) == sav' = [sav EXCEPT !.pc = "done", !.err = err]

\* os.MkdirAll and json.MarshalIndent
SaveMkdir ==
    /\ sav.pc = "mkdir"
    /\ \/ sav' = [sav EXCEPT !.pc = "open"]
       \/ \E e \in {"creating manifest directory", "serializing manifest"} : SaveReturn(e)
    /\ UNCHANGED <<remote, device, wb, lim, uploader, ver, dif, hc, web, pool, more>>

\* os.WriteFile, first half: the file is opened with O_CREATE|O_TRUNC, or the
\* open fails
SaveOpen ==
    /\ sav.pc = "open"
    /\ \/ sav' = [sav EXCEPT !.pc = "write", ![WritePath] = PartFile(sav.new)]
       \/ SaveReturn("writing manifest")
    /\ UNCHANGED <<remote, device, wb, lim, uploader, ver, dif, hc, web, pool, more>>

\* os.WriteFile, second half: all the bytes are written, or the write fails
\* after some of them
SaveWrite ==
    /\ sav.pc = "write"
    /\ \/ sav' = [sav EXCEPT !.pc = "rename", ![WritePath] = WholeFile(sav.new)]
       \/ SaveReturn("writing manifest")
    /\ UNCHANGED <<remote, device, wb, lim, uploader, ver, dif, hc, web, pool, more>>

\* os.Rename(tmpPath, path): the temp file replaces the target in one step, or
\* nothing is renamed
SaveRename ==
    /\ sav.pc = "rename"
    /\ \/ /\ sav.temp.st # "absent"
          /\ sav' = [sav EXCEPT !.pc = "done", !.target = sav.temp, !.temp = AbsentFile]
       \/ sav' = [sav EXCEPT !.pc = "remove"]
    /\ UNCHANGED <<remote, device, wb, lim, uploader, ver, dif, hc, web, pool, more>>

\* os.Remove(tmpPath) after a failed rename
SaveRemove ==
    /\ sav.pc = "remove"
    /\ sav' = [sav EXCEPT !.pc = "done", !.temp = AbsentFile, !.err = "renaming manifest"]
    /\ UNCHANGED <<remote, device, wb, lim, uploader, ver, dif, hc, web, pool, more>>

\* the process is killed or the machine loses power during the save
SaveInterrupted ==
    /\ sav.pc \notin {"idle", "done", "killed"}
    /\ sav' = [sav EXCEPT !.pc = "killed"]
    /\ UNCHANGED <<remote, device, wb, lim, uploader, ver, dif, hc, web, pool, more>>

NextSave ==
    \/ SaveMkdir
    \/ SaveOpen
    \/ SaveWrite
    \/ SaveRename
    \/ SaveRemove
    \/ SaveInterrupted

SpecSave == InitSave /\ [][NextSave]_vars

\* --------------------------------------------------- manifest.Diff, by step
\* the entries tried: two versions, and one with the size of the first and
\* the hash of the second
DiffEntries == {EntryOf("v1"), EntryOf("v2"), [Size |-> SizeOf("v1"), MD5 |-> "v2"]}
\* the manifests tried: each key absent or with any of the entries
DiffManifests ==
    UNION {[S -> DiffEntries] : S \in SUBSET Keys}

\* "localEntry.MD5 != remoteEntry.MD5 || localEntry.Size != remoteEntry.Size"
EntryDiffersByHash(localEntry, remoteEntry) == localEntry.MD5 # remoteEntry.MD5
EntryDiffers(localEntry, remoteEntry) ==
    localEntry.MD5 # remoteEntry.MD5 \/ localEntry.Size # remoteEntry.Size

\* "if _, exists := remote.Files[path]; !exists"
NotInRemoteAlways(rem, path) == TRUE
NotInRemote(rem, path) == path \notin DOMAIN rem

\* two manifests are at hand and Diff has not been called
InitDiff ==
    /\ DeviceIdle
    /\ wb = IdleBackoff /\ lim = IdleLimiter /\ UploaderIdle
    /\ ver = IdleVerify /\ sav = IdleSave /\ hc = IdleCache /\ web = IdleWeb /\ pool = IdlePool
    /\ MoreIdle
    /\ \E a, b \in DiffManifests : dif = [IdleDiff EXCEPT !.x = a, !.y = b]

\* the arguments of the n-th call made: Diff(x, y), Diff(y, x), Diff(x, x)
DiffArgs(n) ==
    IF n = 1 THEN <<dif.x, dif.y>> ELSE IF n = 2 THEN <<dif.y, dif.x>> ELSE <<dif.x, dif.x>>

\* Diff(remote, local) is called: "var result DiffResult"
DiffCall ==
    /\ dif.pc = "idle" /\ Len(dif.res) < 3
    /\ LET args == DiffArgs(Len(dif.res) + 1)
       IN  dif' = [dif EXCEPT !.pc = "loops", !.remote = args[1], !.local = args[2],
                              !.todoR = DOMAIN args[1], !.todoL = DOMAIN args[2],
                              !.result = EmptyDiffResult]
    /\ UNCHANGED <<remote, device, wb, lim, uploader, ver, sav, hc, web, pool, more>>

\* one iteration of "for path, remoteEntry := range remote.Files", in any order
DiffRemoteLoop(path) ==
    /\ dif.pc = "loops" /\ path \in dif.todoR
    /\ LET exists == path \in DOMAIN dif.local
           r == dif.result
       IN  dif' = [dif EXCEPT
               !.todoR = @ \ {path},
               !.result = IF ~exists THEN [r EXCEPT !.Added = Append(@, path)]
                          ELSE IF EntryDiffers(dif.local[path], dif.remote[path])
                                 THEN [r EXCEPT !.Modified = Append(@, path)]
                                 ELSE r]
    /\ UNCHANGED <<remote, device, wb, lim, uploader, ver, sav, hc, web, pool, more>>

\* one iteration of "for path := range local.Files", in any order, after the
\* first loop
DiffLocalLoop(path) ==
    /\ dif.pc = "loops" /\ dif.todoR = {} /\ path \in dif.todoL
    /\ dif' = [dif EXCEPT
           !.todoL = @ \ {path},
           !.result = IF NotInRemote(dif.remote, path)
                        THEN [@ EXCEPT !.Deleted = Append(@, path)]
                        ELSE @]
    /\ UNCHANGED <<remote, device, wb, lim, uploader, ver, sav, hc, web, pool, more>>

\* "return result"
DiffReturn ==
    /\ dif.pc = "loops" /\ dif.todoR = {} /\ dif.todoL = {}
    /\ dif' = [dif EXCEPT !.pc = "idle", !.res = Append(@, dif.result)]
    /\ UNCHANGED <<remote, device, wb, lim, uploader, ver, sav, hc, web, pool, more>>

NextDiff ==
    \/ DiffCall
    \/ \E path \in Keys : DiffRemoteLoop(path)
    \/ \E path \in Keys : DiffLocalLoop(path)
    \/ DiffReturn

SpecDiff == InitDiff /\ [][NextDiff]_vars

\* ------------------------------------------------- upload hashCache, alone
\* the sizes, modification times and hashes tried
CacheSizes == {SizeOf(c) : c \in Contents}
CacheTimes == {"t0", "t1"}
CacheHashes == Contents
CacheEntries == [Size : CacheSizes, Mtime : CacheTimes, MD5 : CacheHashes]

\* hashCache.lookup: the hash returned and the hit flag
LookupResult(cache, key, size, mtime) ==
    IF Lookup(cache, key, size, mtime) THEN <<cache[key].MD5, TRUE>> ELSE <<"", FALSE>>

\* hashCache.update
Updated(cache, key, size, mtime, md5) ==
    MapSet(cache, key, [Size |-> size, Mtime |-> mtime, MD5 |-> md5])

\* a cache as loadHashCache returns it: empty, or with the entries of the file
InitCache ==
    /\ DeviceIdle
    /\ wb = IdleBackoff /\ lim = IdleLimiter /\ UploaderIdle
    /\ ver = IdleVerify /\ sav = IdleSave /\ dif = IdleDiff /\ web = IdleWeb /\ pool = IdlePool
    /\ MoreIdle
    /\ \E f \in UNION {[S -> CacheEntries] : S \in SUBSET Keys} :
          hc = [IdleCache EXCEPT !.pc = "loaded", !.Files = f, !.args = f]

\* c.update(key, size, mtime, md5)
CacheUpdate(key, size, mtime, md5) ==
    /\ hc.pc = "loaded"
    /\ hc' = [hc EXCEPT !.Files = Updated(@, key, size, mtime, md5),
                        !.args = MapSet(@, key, [Size |-> size, Mtime |-> mtime, MD5 |-> md5]),
                        !.last = NoLookup]
    /\ UNCHANGED <<remote, device, wb, lim, uploader, ver, sav, dif, web, pool, more>>

\* c.lookup(key, size, mtime)
CacheLookup(key, size, mtime) ==
    /\ hc.pc = "loaded"
    /\ LET r == LookupResult(hc.Files, key, size, mtime)
       IN  hc' = [hc EXCEPT !.last = [key |-> key, size |-> size, mtime |-> mtime,
                                      md5 |-> r[1], ok |-> r[2]]]
    /\ UNCHANGED <<remote, device, wb, lim, uploader, ver, sav, dif, web, pool, more>>

\* c.prune(validKeys)
CachePrune(validKeys) ==
    /\ hc.pc = "loaded"
    /\ hc' = [hc EXCEPT !.Files = [k \in DOMAIN @ \cap validKeys |-> @[k]],
                        !.args = [k \in DOMAIN @ \cap validKeys |-> @[k]],
                        !.last = NoLookup]
    /\ UNCHANGED <<remote, device, wb, lim, uploader, ver, sav, dif, web, pool, more>>

NextCache ==
    \/ \E k \in Keys, s \in CacheSizes, t \in CacheTimes, h \in CacheHashes : CacheUpdate(k, s, t, h)
    \/ \E k \in Keys, s \in CacheSizes, t \in CacheTimes : CacheLookup(k, s, t)
    \/ \E v \in SUBSET Keys : CachePrune(v)

SpecCache == InitCache /\ [][NextCache]_vars

\* ------------------------------------------------- webServer.handleSync
\* syncMu.Lock() returns only while no one holds the mutex
MuFreeAlways == TRUE
MuFree == web.mu = 0

\* the syncs started and not finished: accepted by handleSync, and the
\* goroutine not yet spawned or not yet through close(ws.syncDone)
RunningSyncs == {r \in Reqs : web.req[r].pc = "go" \/ web.gor[r] \notin {"none", "exited"}}

\* a web server that has received no request
InitWeb ==
    /\ DeviceIdle
    /\ wb = IdleBackoff /\ lim = IdleLimiter /\ UploaderIdle
    /\ ver = IdleVerify /\ sav = IdleSave /\ dif = IdleDiff /\ hc = IdleCache /\ pool = IdlePool
    /\ MoreIdle
    /\ web = [IdleWeb EXCEPT !.pc = "serving"]

\* a POST /api/sync arrives, with a body that decodes or not; the handler is
\* at syncMu.Lock()
ReqArrive(r) ==
    /\ web.pc = "serving" /\ web.req[r].pc = "none"
    /\ \E b \in {"ok", "bad"} : web' = [web EXCEPT !.req[r].pc = "lock", !.req[r].body = b]
    /\ UNCHANGED <<remote, device, wb, lim, uploader, ver, sav, dif, hc, pool, more>>

\* handleSync: ws.syncMu.Lock()
ReqLock(r) ==
    /\ web.req[r].pc = "lock" /\ MuFree
    /\ web' = [web EXCEPT !.mu = r, !.req[r].pc = "check"]
    /\ UNCHANGED <<remote, device, wb, lim, uploader, ver, sav, dif, hc, pool, more>>

\* handleSync: "if ws.syncLog != nil { select { case <-ws.syncDone: default:
\* ... 409 } }"
ReqCheck(r) ==
    /\ web.req[r].pc = "check"
    /\ IF web.syncLog # 0 /\ web.syncDone \notin web.closed
         THEN web' = [web EXCEPT !.mu = 0, !.req[r].pc = "done", !.req[r].status = 409,
                                 !.req[r].saw = RunningSyncs # {}]
         ELSE web' = [web EXCEPT !.req[r].pc = "decode", !.req[r].saw = RunningSyncs # {}]
    /\ UNCHANGED <<remote, device, wb, lim, uploader, ver, sav, dif, hc, pool, more>>

\* handleSync from the Decode to the second Unlock: a body that does not
\* decode is answered 400, a failing config.Write 500; else syncLog and
\* syncDone are made anew
ReqAccept(r) ==
    /\ web.req[r].pc = "decode"
    /\ \/ /\ web.req[r].body = "bad"
          /\ web' = [web EXCEPT !.mu = 0, !.req[r].pc = "done", !.req[r].status = 400]
       \/ /\ web.req[r].body = "ok"
          /\ web' = [web EXCEPT !.mu = 0, !.req[r].pc = "done", !.req[r].status = 500]
       \/ /\ web.req[r].body = "ok"
          /\ web' = [web EXCEPT !.mu = 0, !.req[r].pc = "go", !.syncLog = r, !.syncDone = r]
    /\ UNCHANGED <<remote, device, wb, lim, uploader, ver, sav, dif, hc, pool, more>>

\* handleSync: "go ws.runSync()" and the response
ReqGo(r) ==
    /\ web.req[r].pc = "go"
    /\ web' = [web EXCEPT !.req[r].pc = "done", !.req[r].status = 200, !.gor[r] = "run"]
    /\ UNCHANGED <<remote, device, wb, lim, uploader, ver, sav, dif, hc, pool, more>>

\* runSync: intsync.Run returns, with a result or an error
GorRun(r) ==
    /\ web.gor[r] = "run"
    /\ web' = [web EXCEPT !.gor[r] = "store"]
    /\ UNCHANGED <<remote, device, wb, lim, uploader, ver, sav, dif, hc, pool, more>>

\* runSync: syncMu.Lock(), the assignment of ws.syncResult, syncMu.Unlock()
GorStore(r) ==
    /\ web.gor[r] = "store" /\ MuFree
    /\ web' = [web EXCEPT !.gor[r] = "close"]
    /\ UNCHANGED <<remote, device, wb, lim, uploader, ver, sav, dif, hc, pool, more>>

\* runSync, deferred: log.finish() and close(ws.syncDone), of the channel the
\* field holds then
GorClose(r) ==
    /\ web.gor[r] = "close"
    /\ web' = [web EXCEPT !.gor[r] = "exited", !.closed = @ \cup {web.syncDone}]
    /\ UNCHANGED <<remote, device, wb, lim, uploader, ver, sav, dif, hc, pool, more>>

NextWeb ==
    \E r \in Reqs :
        \/ ReqArrive(r)
        \/ ReqLock(r)
        \/ ReqCheck(r)
        \/ ReqAccept(r)
        \/ ReqGo(r)
        \/ GorRun(r)
        \/ GorStore(r)
        \/ GorClose(r)

SpecWeb == InitWeb /\ [][NextWeb]_vars

\* ----------------------- the worker pool of downloadParallel / uploadParallel
\* the keys a pool may be given: a queue holds no key twice
JobKeys == <<K1, K2, "roms/c.sfc", "roms/d.sfc">>
\* what the retry-wrapped transfer of a key returns
TransferResults == {"nil", "failed"}

\* make(chan string, len(keys)) and make(chan ..., len(keys))
ChanCap(keys) == Len(keys)

\* "for key := range jobs": the channel after a key has been received
ReceivedKept(jobs) == jobs
Received(jobs) == Tail(jobs)

\* close(jobs)
JobsLeftOpen(pl) == pl
CloseJobs(pl) == [pl EXCEPT !.jobsClosed = TRUE]

\* the function has been called with two or more keys and two or more workers,
\* also more workers than keys, and has made its channels
InitPool ==
    /\ DeviceIdle
    /\ wb = IdleBackoff /\ lim = IdleLimiter /\ UploaderIdle
    /\ ver = IdleVerify /\ sav = IdleSave /\ dif = IdleDiff /\ hc = IdleCache /\ web = IdleWeb
    /\ MoreIdle
    /\ \E n \in 2..MaxJobs, w \in 2..(MaxWorkers + 1) :
          pool = [IdlePool EXCEPT !.pc = "spawn", !.keys = SubSeq(JobKeys, 1, n), !.workers = w]

\* "for i := 0; i < opts.Workers; i++ { wg.Add(1); go func() {...}() }"
PoolSpawn ==
    /\ pool.pc = "spawn"
    /\ pool' = [pool EXCEPT !.pc = "send", !.wg = pool.workers,
                            !.wk = [w \in PoolWorkers |->
                                      IF w <= pool.workers THEN [NoWorker EXCEPT !.st = "recv"]
                                      ELSE NoWorker]]
    /\ UNCHANGED <<remote, device, wb, lim, uploader, ver, sav, dif, hc, web, more>>

\* "jobs <- key" of the send loop: blocks while the buffer is full
PoolSendKey ==
    /\ pool.pc = "send" /\ pool.sent < Len(pool.keys)
    /\ Len(pool.jobs) < ChanCap(pool.keys)
    /\ pool' = [pool EXCEPT !.sent = @ + 1, !.jobs = Append(@, pool.keys[pool.sent + 1])]
    /\ UNCHANGED <<remote, device, wb, lim, uploader, ver, sav, dif, hc, web, more>>

\* close(jobs) and "go func() { wg.Wait(); close(results) }()"
PoolCloseJobs ==
    /\ pool.pc = "send" /\ pool.sent = Len(pool.keys)
    /\ pool' = [CloseJobs(pool) EXCEPT !.pc = "drain", !.closer = "wait"]
    /\ UNCHANGED <<remote, device, wb, lim, uploader, ver, sav, dif, hc, web, more>>

\* a worker's "for key := range jobs": it takes the next key and enters
\* retry.WithBackoff, or it finds jobs closed and empty and returns
\* (wg.Done); it blocks while jobs is empty and open
PoolWorkerRecv(w) ==
    /\ pool.wk[w].st = "recv"
    /\ \/ /\ pool.jobs # <<>>
          /\ pool' = [pool EXCEPT !.wk[w] = [st |-> "call", key |-> Head(pool.jobs), err |-> "nil"],
                                  !.jobs = Received(@),
                                  !.taken = Append(@, Head(pool.jobs))]
       \/ /\ pool.jobs = <<>> /\ pool.jobsClosed
          /\ pool' = [pool EXCEPT !.wk[w] = [NoWorker EXCEPT !.st = "exit"], !.wg = @ - 1]
    /\ UNCHANGED <<remote, device, wb, lim, uploader, ver, sav, dif, hc, web, more>>

\* retry.WithBackoff(ctx, maxRetries, fn) returns for the worker's key
PoolWorkerTransfer(w) ==
    /\ pool.wk[w].st = "call"
    /\ \E e \in TransferResults :
          pool' = [pool EXCEPT !.wk[w].st = "ret", !.wk[w].err = e,
                               !.ran = Append(@, pool.wk[w].key)]
    /\ UNCHANGED <<remote, device, wb, lim, uploader, ver, sav, dif, hc, web, more>>

\* "results <- result{key, err}": blocks while the buffer is full
PoolWorkerSend(w) ==
    /\ pool.wk[w].st = "ret"
    /\ Len(pool.results) < ChanCap(pool.keys)
    /\ pool' = [pool EXCEPT !.results = Append(@, [key |-> pool.wk[w].key, err |-> pool.wk[w].err]),
                            !.wk[w] = [NoWorker EXCEPT !.st = "recv"]]
    /\ UNCHANGED <<remote, device, wb, lim, uploader, ver, sav, dif, hc, web, more>>

\* the closing goroutine: wg.Wait() returns when the counter is zero, then
\* close(results)
PoolCloseResults ==
    /\ pool.closer = "wait" /\ pool.wg = 0
    /\ pool' = [pool EXCEPT !.closer = "done", !.resultsClosed = TRUE]
    /\ UNCHANGED <<remote, device, wb, lim, uploader, ver, sav, dif, hc, web, more>>

\* one iteration of the coordinator's "for r := range results"
PoolCollect ==
    /\ pool.pc = "drain" /\ pool.results # <<>>
    /\ pool' = [pool EXCEPT !.results = Tail(@), !.got = Append(@, Head(pool.results))]
    /\ UNCHANGED <<remote, device, wb, lim, uploader, ver, sav, dif, hc, web, more>>

\* the range loop ends: results is closed and empty
PoolDrained ==
    /\ pool.pc = "drain" /\ pool.results = <<>> /\ pool.resultsClosed
    /\ pool' = [pool EXCEPT !.pc = "done"]
    /\ UNCHANGED <<remote, device, wb, lim, uploader, ver, sav, dif, hc, web, more>>

\* the goroutine that called the function
PoolCoordinator == PoolSpawn \/ PoolSendKey \/ PoolCloseJobs \/ PoolCollect \/ PoolDrained
\* worker goroutine w
PoolWorker(w) == PoolWorkerRecv(w) \/ PoolWorkerTransfer(w) \/ PoolWorkerSend(w)

NextPool ==
    \/ PoolSpawn
    \/ PoolSendKey
    \/ PoolCloseJobs
    \/ PoolCollect
    \/ PoolDrained
    \/ PoolCloseResults
    \/ \E w \in PoolWorkers : PoolWorkerRecv(w)
    \/ \E w \in PoolWorkers : PoolWorkerTransfer(w)
    \/ \E w \in PoolWorkers : PoolWorkerSend(w)

SpecPool == InitPool /\ [][NextPool]_vars

\* every goroutine that can take a step eventually takes one (the Go
\* scheduler), and every retry-wrapped transfer returns
SpecPoolFair ==
    /\ SpecPool
    /\ WF_vars(PoolCoordinator)
    /\ WF_vars(PoolCloseResults)
    /\ \A w \in PoolWorkers : WF_vars(PoolWorker(w))

\* ------------------------------------- eventLog and handleSyncEvents (web)
\* the progress lines a sync may write
LineTexts == {"start", "done"}
\* the Last-Event-ID header values tried: none, or the id of an event
NoHeader == "none"
LastEventIDs == {NoHeader} \cup {"0", "1"}

\* strconv.Atoi on the header values tried
Atoi(id) == IF id = "0" THEN 0 ELSE 1

\* the cursor handleSyncEvents starts with
StartCursor(id) == IF id = NoHeader THEN 0 ELSE Atoi(id) + 1

\* eventLog.read(from): lines[from:], and nil when from >= len(lines)
ReadFrom(lines, from) ==
    IF from >= Len(lines) THEN <<>> ELSE SubSeq(lines, from + 1, Len(lines))

\* "id: %d\ndata: %s\n\n" for each line read, with ids cursor, cursor+1, ...
Frames(cursor, lines) == [i \in 1..Len(lines) |-> [id |-> cursor + i - 1, data |-> lines[i]]]

\* the non-blocking send on notify, a channel with a buffer of one
Signalled(notify) == 1

InitEvents ==
    /\ DeviceIdle
    /\ wb = IdleBackoff /\ lim = IdleLimiter /\ UploaderIdle
    /\ ver = IdleVerify /\ sav = IdleSave /\ dif = IdleDiff /\ hc = IdleCache /\ web = IdleWeb
    /\ pool = IdlePool
    /\ ev = IdleEvents /\ ch = IdleChoose

\* handleSync: ws.syncLog = newEventLog(); go ws.runSync()
EvSyncStart ==
    /\ ev.wpc = "idle"
    /\ ev' = [ev EXCEPT !.log = TRUE, !.wpc = "run"]
    /\ UNCHANGED <<remote, device, wb, lim, uploader, ver, sav, dif, hc, web, pool, ch>>

\* eventLog.Write, first half: the line is appended under mu
EvWriteAppend ==
    /\ ev.wpc = "run" /\ Len(ev.lines) < MaxLines
    /\ \E text \in LineTexts : ev' = [ev EXCEPT !.lines = Append(@, text), !.wpc = "signal"]
    /\ UNCHANGED <<remote, device, wb, lim, uploader, ver, sav, dif, hc, web, pool, ch>>

\* eventLog.Write, second half: select { case el.notify <- struct{}{}: default: }
EvWriteSignal ==
    /\ ev.wpc = "signal"
    /\ ev' = [ev EXCEPT !.notify = Signalled(@), !.wpc = "run"]
    /\ UNCHANGED <<remote, device, wb, lim, uploader, ver, sav, dif, hc, web, pool, ch>>

\* runSync's deferred log.finish(), first half: done is set under mu
EvFinish ==
    /\ ev.wpc = "run"
    /\ ev' = [ev EXCEPT !.done = TRUE, !.wpc = "fsignal"]
    /\ UNCHANGED <<remote, device, wb, lim, uploader, ver, sav, dif, hc, web, pool, ch>>

\* finish, second half: the non-blocking send on notify
EvFinishSignal ==
    /\ ev.wpc = "fsignal"
    /\ ev' = [ev EXCEPT !.notify = Signalled(@), !.wpc = "closed"]
    /\ UNCHANGED <<remote, device, wb, lim, uploader, ver, sav, dif, hc, web, pool, ch>>

\* handleSyncEvents up to its loop: 204 without a log, else the cursor from
\* the Last-Event-ID header
ClConnect(c) ==
    /\ ev.cl[c].pc = "off"
    /\ \E id \in LastEventIDs :
          ev' = [ev EXCEPT !.cl[c] =
                    IF ~ev.log THEN [NoClient EXCEPT !.pc = "nocontent"]
                    ELSE [NoClient EXCEPT !.pc = "read", !.cursor = StartCursor(id),
                                          !.from = StartCursor(id)]]
    /\ UNCHANGED <<remote, device, wb, lim, uploader, ver, sav, dif, hc, web, pool, ch>>

\* one pass of the loop: log.read(cursor), the frames, cursor += len(lines),
\* return when done
ClRead(c) ==
    /\ ev.cl[c].pc = "read"
    /\ LET lines == ReadFrom(ev.lines, ev.cl[c].cursor)
       IN  ev' = [ev EXCEPT !.cl[c].got = @ \o Frames(ev.cl[c].cursor, lines),
                            !.cl[c].cursor = @ + Len(lines),
                            !.cl[c].pc = IF ev.done THEN "end" ELSE "wait"]
    /\ UNCHANGED <<remote, device, wb, lim, uploader, ver, sav, dif, hc, web, pool, ch>>

\* select: case <-log.notify
ClWake(c) ==
    /\ ev.cl[c].pc = "wait" /\ ev.notify = 1
    /\ ev' = [ev EXCEPT !.notify = 0, !.cl[c].pc = "read"]
    /\ UNCHANGED <<remote, device, wb, lim, uploader, ver, sav, dif, hc, web, pool, ch>>

\* select: case <-r.Context().Done(), case <-ws.shutdown
ClGone(c) ==
    /\ ev.cl[c].pc = "wait"
    /\ ev' = [ev EXCEPT !.cl[c].pc = "gone"]
    /\ UNCHANGED <<remote, device, wb, lim, uploader, ver, sav, dif, hc, web, pool, ch>>

\* the goroutine of runSync
EvWriter == EvWriteAppend \/ EvWriteSignal \/ EvFinish \/ EvFinishSignal

\* client c's handler, as long as the client stays connected
ClStream(c) == ClRead(c) \/ ClWake(c)

NextEvents ==
    \/ EvSyncStart
    \/ EvWriteAppend
    \/ EvWriteSignal
    \/ EvFinish
    \/ EvFinishSignal
    \/ \E c \in Clients : \/ ClConnect(c)
                          \/ ClRead(c)
                          \/ ClWake(c)
                          \/ ClGone(c)

SpecEvents == InitEvents /\ [][NextEvents]_vars

\* the Go scheduler runs every runnable goroutine: the sync goroutine and each
\* connected client's handler; a POST /api/sync arrives.  Nothing makes a
\* client connect or disconnect
SpecEventsFair ==
    /\ SpecEvents
    /\ WF_vars(EvSyncStart)
    /\ WF_vars(EvWriter)
    /\ \A c \in Clients : WF_vars(ClStream(c))

\* Verify and one non-dry-run Sync on the same device, neither waiting for the
\* other: Verify takes no lock (a sync started from the command line or by
\* cron while the web server, or another shell, runs Verify)
RaceChoices == {o \in VerifySyncChoices : o.Workers = 1 /\ o.MaxRetries = 0}

NextVerifyRace ==
    \/ VerifyStep
    \/ Start(1, RaceChoices, 1)
    \/ CoreStep(1)

SpecVerifyRace == InitVerify /\ [][NextVerifyRace]_vars

\* ------------------------------------------------ choose: encodeSelections
\* manifest keys as the sequence of their "/"-separated segments: a file at the
\* top of the bucket, one directly under roms/, the system roms/snes with three
\* files of its own and two under roms/snes/hacks, and the system bios/ps2
PathKeys ==
    { <<"top.rom">>, <<"roms", "readme">>,
      <<"roms", "snes", "a">>, <<"roms", "snes", "b">>, <<"roms", "snes", "c">>,
      <<"roms", "snes", "hacks", "d">>, <<"roms", "snes", "hacks", "e">>,
      <<"bios", "ps2", "f">> }

\* strings.HasPrefix(key, dir+"/")
HasDirPrefix(key, dir) == Len(dir) < Len(key) /\ SubSeq(key, 1, Len(dir)) = dir

\* Config.ShouldSync on segmented keys: excludes first, each by exact match or
\* as a directory, then the include list the same way
ShouldSyncPath(dirs, excl, key) ==
    /\ ~ \E ex \in excl : key = ex \/ HasDirPrefix(key, ex)
    /\ \E dir \in dirs : key = dir \/ HasDirPrefix(key, dir)

\* path.Dir of a key: "." for a key without a slash
PathDir(key) == IF Len(key) = 1 THEN <<".">> ELSE SubSeq(key, 1, Len(key) - 1)

\* the first two segments, or path.Dir for a key of fewer than three
SystemKey(key) == IF Len(key) <= 2 THEN PathDir(key) ELSE SubSeq(key, 1, 2)

\* strings.TrimPrefix(key, sk+"/")
FileName(key, sk) == IF HasDirPrefix(key, sk) THEN SubSeq(key, Len(sk) + 1, Len(key)) ELSE key

\* buildGroups: one group per system key; the Selected flags are kept apart,
\* as the set of selected keys. The order of groups and files plays no part
\* in what ShouldSync answers, so groups are a set
BuildGroups(m) == { [Dir |-> d, Files |-> {k \in m : SystemKey(k) = d}] : d \in {SystemKey(k) : k \in m} }

\* systemGroup.groupState, subGroup.groupState
GroupState(files, sel) ==
    IF files \cap sel = {} THEN "none" ELSE IF files \subseteq sel THEN "all" ELSE "partial"

\* the immediate child directory of a file under g.Dir, <<>> for a direct file
RelDirOf(g, key) ==
    LET name == FileName(key, g.Dir) IN IF Len(name) > 1 THEN <<name[1]>> ELSE <<>>

BuildSubGroups(g) ==
    { [RelDir |-> r, Files |-> {k \in g.Files : RelDirOf(g, k) = r}] : r \in {RelDirOf(g, k) : k \in g.Files} }

FullPath(sg, systemDir) == IF sg.RelDir = <<>> THEN systemDir ELSE systemDir \o sg.RelDir

EncodeFlat(g, sel) ==
    LET selected == Cardinality(g.Files \cap sel)
        excluded == Cardinality(g.Files) - selected
    IN  IF excluded < selected
        THEN [dirs |-> {g.Dir}, excl |-> g.Files \ sel]
        ELSE [dirs |-> g.Files \cap sel, excl |-> {}]

\* what one sub-group adds to aExc (encoding A: the system directory minus
\* exclusions) and to bInc (encoding B: inclusions only)
SubExcluded(g, sg, sel) ==
    LET st == GroupState(sg.Files, sel)
    IN  IF st = "all" THEN {}
        ELSE IF st = "none" THEN (IF sg.RelDir = <<>> THEN sg.Files ELSE {FullPath(sg, g.Dir)})
        ELSE sg.Files \ sel

SubIncluded(g, sg, sel) ==
    LET st == GroupState(sg.Files, sel)
    IN  IF st = "all" THEN (IF sg.RelDir = <<>> THEN sg.Files ELSE {FullPath(sg, g.Dir)})
        ELSE IF st = "none" THEN {}
        ELSE sg.Files \cap sel

EncodeGroup(g, sel) ==
    LET st == GroupState(g.Files, sel)
        sgs == BuildSubGroups(g)
        aExc == UNION {SubExcluded(g, sg, sel) : sg \in sgs}
        bInc == UNION {SubIncluded(g, sg, sel) : sg \in sgs}
    IN  IF st = "all" THEN [dirs |-> {g.Dir}, excl |-> {}]
        ELSE IF st = "none" THEN [dirs |-> {}, excl |-> {}]
        ELSE IF Cardinality(sgs) <= 1 THEN EncodeFlat(g, sel)
        ELSE IF 1 + Cardinality(aExc) <= Cardinality(bInc)
             THEN [dirs |-> {g.Dir}, excl |-> aExc]
             ELSE [dirs |-> bInc, excl |-> {}]

EncodeSelections(groups, sel) ==
    [dirs |-> UNION {EncodeGroup(g, sel).dirs : g \in groups},
     excl |-> UNION {EncodeGroup(g, sel).excl : g \in groups}]

\* a device whose configuration selects nothing yet, and the bucket's manifest
InitChoose ==
    /\ DeviceIdle
    /\ wb = IdleBackoff /\ lim = IdleLimiter /\ UploaderIdle
    /\ ver = IdleVerify /\ sav = IdleSave /\ dif = IdleDiff /\ hc = IdleCache /\ web = IdleWeb
    /\ pool = IdlePool
    /\ ev = IdleEvents
    /\ \E m \in (SUBSET PathKeys) \ {{}} : ch = [IdleChoose EXCEPT !.pc = "idle", !.manifest = m]

\* choose / the web server: groups := buildGroups(remote, cfg)
ChBuildGroups ==
    /\ ch.pc = "idle"
    /\ ch' = [ch EXCEPT !.pc = "choosing",
                        !.selected = {k \in ch.manifest : ShouldSyncPath(ch.dirs, ch.excl, k)}]
    /\ UNCHANGED <<remote, device, wb, lim, uploader, ver, sav, dif, hc, web, pool, ev>>

\* the user toggles one file
ChToggle(k) ==
    /\ ch.pc = "choosing" /\ k \in ch.manifest
    /\ ch' = [ch EXCEPT !.selected = IF k \in @ THEN @ \ {k} ELSE @ \cup {k}]
    /\ UNCHANGED <<remote, device, wb, lim, uploader, ver, sav, dif, hc, web, pool, ev>>

\* syncDirs, syncExclude := encodeSelections(groups), stored in the config
ChEncode ==
    /\ ch.pc = "choosing"
    /\ LET enc == EncodeSelections(BuildGroups(ch.manifest), ch.selected)
       IN  ch' = [ch EXCEPT !.pc = "saved", !.dirs = enc.dirs, !.excl = enc.excl]
    /\ UNCHANGED <<remote, device, wb, lim, uploader, ver, sav, dif, hc, web, pool, ev>>

\* the chooser ends; the written configuration stays for the next one
ChExit ==
    /\ ch.pc = "saved"
    /\ ch' = [ch EXCEPT !.pc = "idle", !.selected = {}]
    /\ UNCHANGED <<remote, device, wb, lim, uploader, ver, sav, dif, hc, web, pool, ev>>

NextChoose ==
    \/ ChBuildGroups
    \/ \E k \in PathKeys : ChToggle(k)
    \/ ChEncode
    \/ ChExit

SpecChoose == InitChoose /\ [][NextChoose]_vars

\* ------------------------------------------------------------------ claims
\* the complete file versions the final path of k may hold during p's Run: the
\* one it held when Run was called, or the bucket's
CompleteVersions(p, k) ==
    {hist[p].disk0[k]} \cup (IF k \in DOMAIN remote THEN {remote[k].MD5} ELSE {})

\* C1: at every point of a Sync run (after a failed download, a failed rename
\* or a kill at any step included) the file at a key's final path is absent or
\* a complete version, the previous or the new one, never a partial file; the
\* final path changes only by the rename of a completely written temp file (or
\* by the deletion loop removing it), and once an attempt has failed the key's
\* temp file is gone.
AtomicDownload ==
    /\ [](pc[1] # "idle" =>
            \A k \in Keys : disk[k] # Partial /\ disk[k] \in {NoFile} \cup CompleteVersions(1, k))
    /\ [](\A t \in Threads :
            (task[1][t].st \in {"backoff", "ret"} /\ task[1][t].err = "failed")
                => tmp[task[1][t].key] = NoFile)
    /\ [][\A k \in Keys : disk'[k] # disk[k] =>
            \/ /\ \E t \in Threads : task[1][t].st = "rename" /\ task[1][t].key = k
               /\ tmp[k] \in Contents /\ disk'[k] = tmp[k] /\ tmp'[k] = NoFile
            \/ pc[1] = "delete" /\ disk'[k] = NoFile]_vars

\* C1 witness: a download of a key whose previous version is on disk has failed
\* after DownloadFile was called; the previous version is still there
AtomicDownloadWitness ==
    \E t \in Threads :
        /\ task[1][t].st = "ret" /\ task[1][t].err = "failed"
        /\ task[1][t].key \in hist[1].calls
        /\ disk[task[1][t].key] = "v1"
        /\ tmp[task[1][t].key] = NoFile

\* C2: whenever the local manifest file has been persisted by a Sync run, each
\* entry that differs from the file's content at the start of the run belongs
\* to a key whose DownloadFile and rename succeeded in this run; and a run that
\* ends without a fatal error has persisted its in-memory manifest, failed
\* transfers or not.
ManifestOnlySucceeded ==
    /\ pc[1] # "idle" =>
          \A k \in DOMAIN localFile :
              (k \notin DOMAIN hist[1].local0 \/ localFile[k] # hist[1].local0[k]) => k \in hist[1].ok
    /\ (pc[1] = "done" /\ ~run[1].opts.DryRun /\ run[1].fatal = "nil") => localFile = run[1].local

\* the keys of the entries of a Result.Errors list whose error is one of errs
ErrorKeys(errors, errs) == {errors[i].key : i \in {j \in 1..Len(errors) : errors[j].err \in errs}}
DownloadErrors == {"failed", "context canceled"}
DeleteErrors == {"delete"}
NoDup(q) == \A i, j \in 1..Len(q) : i # j => q[i] # q[j]
\* Run of process p got past the remote manifest and was not killed
Planned(p) == pc[p] \in {"seq", "par", "delete"} \/ (pc[p] = "done" /\ run[p].fatal \in {"nil", "saving local manifest"})
\* the keys in the local manifest Run loaded that are not in the selected remote manifest
Gone(p) == {k \in DOMAIN hist[p].local0 : ~(k \in DOMAIN remote /\ ShouldSync(cfg, k))}

\* C5: when a non-dry-run Sync has ended, every key that was in the local
\* manifest but is not in the selected remote manifest got the deletion policy:
\* with config delete true and NoDelete false, unless its removal failed, its
\* file is gone from disk, the key is out of the local manifest and is in
\* Deleted; with deletion disabled its file is as it was, the key is still in
\* the local manifest and is in Retained, not in Deleted.  And at all times, in
\* every run, no key is in two of Downloaded, Deleted, Retained.
DeletionPolicy ==
    LET r == run[1].result
        failed == ErrorKeys(r.Errors, DeleteErrors)
    IN  /\ Range(r.Downloaded) \cap Range(r.Deleted) = {}
        /\ Range(r.Downloaded) \cap Range(r.Retained) = {}
        /\ Range(r.Deleted) \cap Range(r.Retained) = {}
        /\ (pc[1] = "done" /\ Planned(1) /\ ~run[1].opts.DryRun) =>
              IF cfg.Delete /\ ~run[1].opts.NoDelete
                THEN /\ Range(r.Deleted) = Gone(1) \ failed
                     /\ Range(r.Retained) = {}
                     /\ \A k \in Gone(1) \ failed :
                            /\ disk[k] = NoFile
                            /\ k \notin DOMAIN run[1].local
                            /\ run[1].fatal = "nil" => k \notin DOMAIN localFile
                     /\ \A k \in failed : disk[k] = hist[1].disk0[k] /\ k \in DOMAIN run[1].local
                ELSE /\ Range(r.Retained) = Gone(1)
                     /\ Range(r.Deleted) = {}
                     /\ failed = {}
                     /\ \A k \in Gone(1) :
                            /\ disk[k] = hist[1].disk0[k]
                            /\ k \in DOMAIN run[1].local
                            /\ run[1].fatal = "nil" => k \in DOMAIN localFile

\* C5 witness: a Sync with deletion enabled has ended having downloaded one key
\* and removed the file of another
DeletionPolicyWitness ==
    /\ pc[1] = "done" /\ ~run[1].opts.DryRun /\ run[1].fatal = "nil"
    /\ run[1].result.Downloaded # <<>>
    /\ \E k \in Range(run[1].result.Deleted) : hist[1].disk0[k] = "v1" /\ disk[k] = NoFile

\* C6: in a non-dry-run Sync that got to the end of its download phase, every
\* queued key is exactly once in Downloaded or (as a download error) in Errors
\* and never in both; when a download has failed, every queued key has still
\* had its DownloadFile call and Run returns nil, unless the final SaveJSON
\* itself fails; a key whose download and rename succeeded has the remote
\* content on disk and, once Run has returned nil, the remote entry in the
\* local manifest file.  Sequential and parallel path alike.
FailureIsolated ==
    LET r == run[1].result
        failed == ErrorKeys(r.Errors, DownloadErrors)
    IN  /\ (pc[1] \in {"delete", "done"} /\ Planned(1) /\ ~run[1].opts.DryRun) =>
              /\ Range(r.Downloaded) \cup failed = Range(run[1].queue)
              /\ Range(r.Downloaded) \cap failed = {}
              /\ Len(r.Downloaded) + Cardinality({i \in 1..Len(r.Errors) : r.Errors[i].err \in DownloadErrors})
                    = Len(run[1].queue)
              /\ failed # {} => Range(run[1].queue) \subseteq hist[1].calls
        /\ (pc[1] = "done" /\ failed # {}) =>
              \/ run[1].fatal = "nil" /\ localFile = run[1].local
              \/ run[1].fatal = "saving local manifest"
        /\ \A k \in hist[1].ok :
              /\ disk[k] = remote[k].MD5
              /\ (pc[1] = "done" /\ run[1].fatal = "nil") => (k \in DOMAIN localFile /\ localFile[k] = remote[k])

\* C6 witness: a parallel Sync has returned nil with one key failed and the
\* other downloaded
FailureIsolatedWitness ==
    /\ pc[1] = "done" /\ run[1].fatal = "nil"
    /\ run[1].opts.Workers > 1 /\ Len(run[1].queue) > 1
    /\ ErrorKeys(run[1].result.Errors, DownloadErrors) # {}
    /\ \E k \in Range(run[1].result.Downloaded) : k \in hist[1].ok /\ disk[k] = "v2"

\* C7: the download queue never holds a key twice, whatever the remote
\* manifest, the local manifest and the disk; so neither does the jobs channel
\* nor Downloaded, no two goroutines transfer the same key, and no transfer is
\* under way for a key that has already been downloaded in this run.
NoDuplicateDownloads ==
    /\ NoDup(run[1].queue)
    /\ NoDup(chans[1].jobs)
    /\ NoDup(run[1].result.Downloaded)
    /\ \A t \in Threads :
          task[1][t].st \in {"call", "writing", "rename", "backoff"} =>
              /\ task[1][t].key \notin hist[1].ok
              /\ task[1][t].key \notin Range(run[1].result.Downloaded)
              /\ \A u \in Threads \ {t} :
                    task[1][u].st \in {"call", "writing", "rename", "backoff", "ret"}
                        => task[1][u].key # task[1][t].key

\* C7 witness: a key that was both modified in the bucket and missing from
\* disk has been downloaded, and the run has ended
NoDuplicateDownloadsWitness ==
    /\ pc[1] = "done" /\ ~run[1].opts.DryRun
    /\ \E k \in Range(run[1].result.Downloaded) :
          /\ k \in hist[1].ok
          /\ hist[1].disk0[k] = NoFile
          /\ k \in DOMAIN hist[1].local0 /\ hist[1].local0[k] # remote[k]

\* the selected remote keys, and those of them a Run of p has to download: not
\* in the local manifest it loaded, or there with another entry, or missing
\* from disk
Selected == {k \in DOMAIN remote : ShouldSync(cfg, k)}
ToDownload(p) ==
    {k \in Selected : \/ k \notin DOMAIN hist[p].local0
                      \/ hist[p].local0[k] # remote[k]
                      \/ hist[p].disk0[k] = NoFile}
\* the local manifest a Run of p leaves when the download of the keys in
\* failed fails and the keys in deleted are deleted
ExpectedManifest(p, failed, deleted) ==
    LET keep == {k \in DOMAIN hist[p].local0 :
                    k \notin deleted /\ ~(k \in failed /\ hist[p].local0[k] = remote[k])}
    IN  [k \in keep \cup (ToDownload(p) \ failed) |->
            IF k \in ToDownload(p) \ failed THEN remote[k] ELSE hist[p].local0[k]]

\* C9: what a non-dry-run Sync ends with is a function of the remote manifest,
\* the local manifest, the disk, the configuration, the options other than
\* Workers, and the set of keys that failed: the sets Downloaded, Deleted and
\* Retained, the Skipped count, the files on disk and (when the final save
\* succeeded) the local manifest file.  Workers does not occur in it, so a
\* sequential and a parallel run with the same inputs and failures end alike,
\* under every interleaving of the workers.
WorkersIndependent ==
    (pc[1] = "done" /\ Planned(1) /\ ~run[1].opts.DryRun) =>
        LET r == run[1].result
            failed == ErrorKeys(r.Errors, DownloadErrors)
            undeleted == ErrorKeys(r.Errors, DeleteErrors)
            allowed == cfg.Delete /\ ~run[1].opts.NoDelete
            deleted == IF allowed THEN Gone(1) \ undeleted ELSE {}
            written == IF run[1].opts.MaxRetries >= 0 THEN ToDownload(1) \ failed ELSE {}
        IN  /\ failed \subseteq ToDownload(1)
            /\ undeleted \subseteq Gone(1)
            /\ Range(r.Downloaded) = ToDownload(1) \ failed
            /\ Range(r.Deleted) = deleted
            /\ Range(r.Retained) = IF allowed THEN {} ELSE Gone(1)
            /\ r.Skipped = Cardinality(Selected) - Cardinality(ToDownload(1))
            /\ \A k \in Keys :
                  disk[k] = IF k \in written THEN remote[k].MD5
                            ELSE IF k \in deleted THEN NoFile
                            ELSE hist[1].disk0[k]
            /\ run[1].fatal = "nil" => localFile = ExpectedManifest(1, failed, deleted)

\* C9 witness: a parallel Sync has ended; the re-download of a file missing
\* from disk failed, another key was downloaded
WorkersIndependentWitness ==
    /\ pc[1] = "done" /\ run[1].fatal = "nil" /\ ~run[1].opts.DryRun
    /\ UseParallel(run[1].opts, run[1].queue)
    /\ run[1].result.Downloaded # <<>>
    /\ \E k \in ErrorKeys(run[1].result.Errors, DownloadErrors) :
          k \in DOMAIN hist[1].local0 /\ hist[1].local0[k] = remote[k] /\ k \notin DOMAIN localFile

\* C10: once the context of a Sync has been cancelled, no DownloadFile call is
\* made for a key that was taken from the queue after the cancellation: such a
\* key's call is never under way and has never failed.
NoTransferAfterCancel ==
    \A t \in Threads :
        task[1][t].late =>
            /\ task[1][t].st \notin {"writing", "rename"}
            /\ task[1][t].err # "failed"
            /\ task[1][t].key \notin hist[1].ok

LockHeldError == "another sync is already running"

\* C3: no two processes hold the sync lock at once, and a non-dry-run Run holds
\* it from its lock attempt until it returns.  A non-dry-run Run whose lock
\* attempt finds the lock held does not wait (the attempt can always be taken)
\* and returns "another sync is already running" having made no DownloadFile
\* call, with an empty Result, and with the files, the temp files and the local
\* manifest file as they were.
LockExcludes ==
    /\ [](\A p, q \in Procs : (p # q /\ holds[p]) => ~holds[q])
    /\ [](\A p \in Procs :
            /\ (pc[p] \in {"fetch", "seq", "par", "delete"} /\ ~run[p].opts.DryRun) => holds[p]
            /\ pc[p] = "lock" => ENABLED AcquireLock(p)
            /\ (pc[p] = "done" /\ run[p].fatal = LockHeldError) =>
                  /\ ~holds[p]
                  /\ hist[p].calls = {} /\ hist[p].ok = {}
                  /\ run[p].result = EmptyResult)
    /\ [][\A p \in Procs :
            (pc[p] = "lock" /\ pc'[p] # "lock" /\ \E q \in Procs \ {p} : holds[q]) =>
                /\ pc'[p] = "done" /\ run'[p].fatal \in {LockHeldError, "killed"}
                /\ UNCHANGED <<remote, disk, tmp, localFile, holds>>]_vars

\* C3 witness: one process is downloading under the lock, the other has been
\* refused
LockExcludesWitness ==
    \E p, q \in Procs :
        /\ holds[p] /\ pc[p] = "seq" /\ task[p][0].st = "writing"
        /\ pc[q] = "done" /\ run[q].fatal = LockHeldError

\* C4: after a fully successful Sync and the deletion of files from disk, with
\* the remote and the local manifest left as they were, the next non-dry-run
\* Sync (in which nothing fails) has called DownloadFile for exactly the
\* selected keys whose files were missing from disk, and those files hold the
\* remote content again.
DriftHealed ==
    (/\ pc[1] = "done" /\ hist[1].prevOK
     /\ ~run[1].opts.DryRun /\ run[1].fatal = "nil" /\ run[1].result.Errors = <<>>) =>
        LET missing == {k \in Selected : hist[1].disk0[k] = NoFile}
        IN  /\ hist[1].calls = missing
            /\ \A k \in missing : disk[k] = remote[k].MD5

\* C8: a dry-run Sync never holds the sync lock and makes no DownloadFile call,
\* and no step of it changes a file or a temp file under the emulation path,
\* the local manifest file, the bucket or the lock.
DryRunChangesNothing ==
    /\ [](\A p \in Procs :
            run[p].opts.DryRun =>
                /\ ~holds[p]
                /\ pc[p] # "idle" => (hist[p].calls = {} /\ hist[p].ok = {}))
    /\ [][\A p \in Procs :
            (/\ run[p].opts.DryRun /\ pc[p] \notin {"idle", "done"}
             /\ <<pc[p], run[p]>>' # <<pc[p], run[p]>>) =>
                UNCHANGED <<remote, disk, tmp, localFile, holds>>]_vars

\* C8 witness: a dry run has completed, reporting a key to download, while the
\* other process holds the lock; a leftover temp file is still there
DryRunChangesNothingWitness ==
    \E p, q \in Procs :
        /\ run[p].opts.DryRun /\ pc[p] = "done" /\ run[p].fatal = "nil"
        /\ run[p].result.Downloaded # <<>>
        /\ holds[q]
        /\ tmp[K1] = Partial

\* ------------------------------------------------------ retry.WithBackoff
Last(q) == q[Len(q)]

\* C11: for maxRetries >= 0 WithBackoff invokes the operation at least once and
\* at most maxRetries + 1 times; a nil result is the last invocation and makes
\* WithBackoff return nil; an operation error is returned only when all
\* maxRetries + 1 invocations failed, and it is the error of the last one; with
\* maxRetries = 0 there is exactly one invocation and no delay
BoundedAttempts ==
    wb.maxRetries >= 0 =>
      /\ Len(wb.results) <= wb.maxRetries + 1
      /\ wb.waits <= wb.maxRetries
      /\ \A i \in 1..Len(wb.results) :
            wb.results[i] = "nil" => i = Len(wb.results) /\ wb.tk.st = "ret" /\ wb.tk.err = "nil"
      /\ wb.tk.st = "ret" =>
            /\ Len(wb.results) >= 1
            /\ wb.tk.err = "nil" => Last(wb.results) = "nil"
            /\ wb.tk.err \in RetryErrors =>
                  /\ Len(wb.results) = wb.maxRetries + 1
                  /\ \A i \in 1..Len(wb.results) : wb.results[i] # "nil"
                  /\ wb.tk.err = Last(wb.results)
            /\ (Len(wb.results) = wb.maxRetries + 1 /\ Last(wb.results) # "nil") =>
                  wb.tk.err = Last(wb.results)
            /\ wb.maxRetries = 0 => Len(wb.results) = 1 /\ wb.waits = 0

\* two failed invocations with different errors exhaust maxRetries = 1
BoundedAttemptsWitness ==
    /\ wb.maxRetries = 1 /\ wb.tk.st = "ret"
    /\ wb.results = <<"errA", "errB">> /\ wb.tk.err = "errB" /\ wb.waits = 1

\* C12: a step taken while WithBackoff waits between two attempts and that
\* finds the context cancelled returns the context's error and invokes nothing;
\* once WithBackoff has returned, the operation is never invoked again
CancelledWhileWaiting ==
    [][/\ (wb.tk.st = "backoff" /\ wb'.ctxDone) =>
            /\ wb'.results = wb.results
            /\ wb'.tk.st \in {"backoff", "ret"}
            /\ wb'.tk.st = "ret" => wb'.tk.err = "context canceled"
       /\ wb.tk.st = "ret" => wb'.results = wb.results /\ wb'.tk = wb.tk]_vars

\* the context was cancelled during a delay after a failed invocation
CancelledWhileWaitingWitness ==
    /\ wb.tk.st = "ret" /\ wb.tk.err = "context canceled"
    /\ wb.results = <<"errA">> /\ wb.maxRetries >= 1 /\ wb.waits = 1

\* ------------------------------------------------------ ratelimit.Limiter
RECURSIVE ServedIn(_, _)
\* the chunks for which wait returned in the ticks t1..t2
ServedIn(t1, t2) == IF t1 > t2 THEN 0 ELSE lim.served[t1] + ServedIn(t1 + 1, t2)

\* C13: in every window of time, wait has returned for at most rate * length
\* of the window plus one full bucket, over all readers together
AggregateCap ==
    lim.rate > 0 =>
      \A t1 \in 0..lim.now : \A t2 \in t1..lim.now :
         ServedIn(t1, t2) <= (t2 - t1) + lim.rate

\* ------------------------------------------------------------- upload.Run
\* the hash cache the scan of this Run produces, pruned to the scanned keys
ScannedCache == Pruned(CacheAfterScan(uhist.cache0, tree), BuildManifest(uhist.cache0, tree))

\* C14: in a non-dry-run Upload, once an UploadFile or DeleteObject call has
\* been issued the hash cache has been saved, and unless that write failed the
\* cache file holds the hashes of the scan, pruned to the scanned keys
CacheSavedBeforeTransfers ==
    (~up.opts.DryRun /\ uhist.calls # {}) =>
        /\ uhist.tried
        /\ uhist.saved => cacheFile = ScannedCache

\* C15: an Upload whose SourcePath does not exist issues no UploadFile, no
\* DeleteObject and no UploadManifest call, and returns a fatal error
MissingSourceRejected ==
    (~tree.exists /\ up.pc # "idle") =>
        /\ uhist.calls = {} /\ uhist.published = 0
        /\ objects = uhist.objects0 /\ remote = uhist.remote0
        /\ up.pc = "done" => up.fatal # "nil"

\* a missing SourcePath empties the bucket: every object deleted, an empty
\* manifest published, nil returned
MissingSourceWipesBucket ==
    /\ ~tree.exists /\ up.pc = "done" /\ up.fatal = "nil"
    /\ DOMAIN uhist.remote0 = Keys /\ remote = EmptyMap
    /\ \A k \in Keys : uhist.objects0[k] # NoFile /\ objects[k] = NoFile

UploadErrors == {"failed", "context canceled"}
\* Run got past the remote manifest
UploadPlanned == up.pc \in {"seq", "par", "delete", "publish"} \/ (up.pc = "done" /\ up.fatal # "parsing remote manifest")
\* the added and modified keys, from the inputs of the Run
ToUpload ==
    DiffAdded(BuildManifest(uhist.cache0, tree), up.old)
      \cup DiffModified(BuildManifest(uhist.cache0, tree), up.old)
\* the uploads are over: Run is in or past the deletion loop
UploadsOver == UploadPlanned /\ up.pc \in {"delete", "publish", "done"}

\* C16: in a non-dry-run Upload that is past its uploads, every added or
\* modified key is in exactly one of Uploaded and Errors, once; when an upload
\* failed, UploadFile was still called for every added or modified key; when
\* the deletion loop is over, DeleteObject was called for every deleted key,
\* each of which is in Deleted or in Errors; and Run returns nil unless the
\* UploadManifest call itself failed.  Sequential and parallel path alike.
UploadFailureIsolated ==
    LET r == up.result
        failed == ErrorKeys(r.Errors, UploadErrors)
        undeleted == ErrorKeys(r.Errors, DeleteErrors)
        gone == DiffDeleted(BuildManifest(uhist.cache0, tree), up.old)
    IN  (~up.opts.DryRun /\ ~up.opts.ManifestOnly /\ UploadsOver) =>
          /\ Range(r.Uploaded) \cup failed = ToUpload
          /\ Range(r.Uploaded) \cap failed = {}
          /\ Len(r.Uploaded) + Len(r.Errors) = Cardinality(ToUpload) + Cardinality(undeleted)
          /\ failed # {} => \A k \in ToUpload : <<"UploadFile", k>> \in uhist.calls
          /\ up.pc \in {"publish", "done"} =>
                /\ \A k \in gone : <<"DeleteObject", k>> \in uhist.calls
                /\ Range(r.Deleted) \cup undeleted = gone
                /\ Range(r.Deleted) \cap undeleted = {}
          /\ up.pc = "done" => up.fatal \in {"nil", "uploading manifest"}

\* a parallel run in which one upload failed and the other succeeded, and Run
\* returned nil
UploadFailureIsolatedWitness ==
    /\ up.pc = "done" /\ up.fatal = "nil" /\ ~up.opts.DryRun /\ up.opts.Workers = 2
    /\ Len(up.result.Uploaded) = 1
    /\ \E i \in 1..Len(up.result.Errors) : up.result.Errors[i].err = "failed"
    /\ Cardinality(uhist.calls) = 2

\* C17: in a non-dry-run, non-manifest-only Upload, UploadManifest is called
\* at most once, and exactly once when Run returns nil or "uploading
\* manifest"; when it is called every UploadFile and DeleteObject call of
\* the run has returned and none is issued afterwards; as long as it has not
\* succeeded, also when Run returns a fatal error, the manifest in the bucket
\* is unchanged
ManifestPublishedLast ==
    (~up.opts.DryRun /\ ~up.opts.ManifestOnly /\ up.pc # "idle") =>
        /\ uhist.published <= 1
        /\ ~uhist.late
        /\ (up.pc = "publish" \/ uhist.published > 0) =>
              /\ \A t \in Threads : utask[t].st \in {"idle", "exit"}
              /\ uchans = IdleChans
              /\ up.idx > Len(up.deleted)
              /\ \A k \in Range(up.queue) : up.opts.MaxRetries >= 0 => <<"UploadFile", k>> \in uhist.calls
              /\ \A k \in Range(up.deleted) : <<"DeleteObject", k>> \in uhist.calls
        /\ up.pc = "done" =>
              /\ up.fatal = "nil" => uhist.published = 1 /\ remote = up.new
              /\ up.fatal = "uploading manifest" => uhist.published = 1
              /\ up.fatal = "parsing remote manifest" => uhist.published = 0 /\ uhist.calls = {}
              /\ up.fatal # "nil" => remote = uhist.remote0
        /\ up.pc # "done" => remote = uhist.remote0

\* a run that uploaded, deleted and then published a changed manifest
ManifestPublishedLastWitness ==
    /\ up.pc = "done" /\ up.fatal = "nil" /\ ~up.opts.DryRun /\ ~up.opts.ManifestOnly
    /\ uhist.published = 1 /\ remote # uhist.remote0
    /\ \E k1, k2 \in Keys : {<<"UploadFile", k1>>, <<"DeleteObject", k2>>} \subseteq uhist.calls

\* C18: no step of a dry-run Upload changes a bucket object, the bucket
\* manifest or the hash cache file; no UploadFile, DeleteObject or
\* UploadManifest call is issued; and Uploaded lists the added and modified keys
DryUploadChangesNothing ==
    /\ [][up'.opts.DryRun => UNCHANGED <<remote, objects, cacheFile, tree>>]_vars
    /\ [](up.opts.DryRun =>
            /\ uhist.calls = {} /\ uhist.published = 0 /\ ~uhist.tried
            /\ (UploadsOver /\ ~up.opts.ManifestOnly) =>
                  /\ Range(up.result.Uploaded) = ToUpload
                  /\ Len(up.result.Uploaded) = Cardinality(ToUpload)
                  /\ up.result.Errors = <<>>)

\* a finished dry run that would upload, would delete and would rewrite the cache
DryUploadChangesNothingWitness ==
    /\ up.pc = "done" /\ up.opts.DryRun /\ ~up.opts.ManifestOnly
    /\ up.result.Uploaded # <<>> /\ up.result.Deleted # <<>>
    /\ cacheFile # Pruned(up.cache, up.new)
    /\ remote # up.new

\* C19: in a non-dry-run Upload that follows a non-dry-run Upload which saved
\* its cache and returned nil, and which reads the manifest that one
\* published: no UploadFile and no DeleteObject call is issued, CacheHits is the
\* number of scanned files, the manifest built is the one the first run built,
\* Skipped is the number of scanned files when the run is over, and a
\* successful run leaves that manifest in the bucket
SecondUploadIdle ==
    (uhist.prevOK /\ up.pc # "idle" /\ up.old = remote) =>
        /\ uhist.calls = {}
        /\ objects = uhist.objects0
        /\ up.result.CacheHits = Cardinality(Scanned(tree))
        /\ up.new = uhist.prevNew
        /\ up.result.Uploaded = <<>> /\ up.result.Deleted = <<>> /\ up.result.Errors = <<>>
        /\ up.pc \in {"publish", "done"} => up.result.Skipped = Cardinality(Scanned(tree))
        /\ (up.pc = "done" /\ up.fatal = "nil") =>
              /\ remote = uhist.prevNew /\ remote = uhist.remote0
              /\ up.opts.ManifestOnly \/ uhist.published = 1

\* the first run uploaded one file and deleted the object of the other key,
\* the second run found the one file in the cache and is over
SecondUploadIdleWitness ==
    /\ uhist.prevOK /\ up.pc = "done" /\ up.fatal = "nil" /\ ~up.opts.ManifestOnly
    /\ up.old = remote /\ uhist.published = 1
    /\ \E k1, k2 \in Keys : uhist.prevCalls = {<<"UploadFile", k1>>, <<"DeleteObject", k2>>}
    /\ up.result.CacheHits = 1 /\ up.result.Skipped = 1

\* ------------------------------------------------------------ repeated Sync
\* C20: in a non-dry-run Sync that follows a fully successful non-dry-run Sync,
\* with no file deleted in between (the remote manifest and the configuration
\* never change): no DownloadFile call is issued, no file and no local manifest
\* entry changes, and when Run returns nil Downloaded and Deleted are empty and
\* Skipped is the number of selected remote keys
SecondSyncIdle ==
    (/\ hist[1].prevOK /\ ~hist[1].prevDrift
     /\ ~run[1].opts.DryRun /\ pc[1] # "idle") =>
        /\ hist[1].calls = {}
        /\ hist[1].drift \/ disk = hist[1].disk0
        /\ localFile = hist[1].local0
        /\ (pc[1] = "done" /\ run[1].fatal = "nil") =>
              /\ run[1].result.Downloaded = <<>>
              /\ run[1].result.Deleted = <<>>
              /\ run[1].result.Skipped = Cardinality(Selected)

\* -------------------------------------------------------------- sync.Verify
\* how often key k occurs in list q
Count(q, k) == Cardinality({i \in 1..Len(q) : q[i] = k})

\* C21: when Verify has returned a result, every entry of the local manifest
\* it loaded is in exactly one of OK, Mismatch, Missing and Errors, once;
\* Errors holds the keys whose Stat or HashFile call failed, and of the other
\* keys Missing holds those with no file on disk, Mismatch those whose file
\* exists with a size or a hash other than the entry's, OK those whose size
\* and hash equal the entry's; and when Verify returned no error the manifest
\* file holds the loaded entries minus those reported Missing or Mismatch.
VerifyClassifies ==
    (ver.pc = "done" /\ ver.fatal # "loading local manifest") =>
        LET r == ver.result
            all == r.OK \o r.Mismatch \o r.Missing \o r.Errors
            sameSize(k) == FileSize(disk[k]) = ver.local0[k].Size
            sameHash(k) == HashOf(disk[k]) = ver.local0[k].MD5
        IN  /\ Range(all) = DOMAIN ver.local0
            /\ \A k \in DOMAIN ver.local0 : Count(all, k) = 1
            /\ Range(r.Errors) = ver.failed
            /\ \A k \in DOMAIN ver.local0 \ ver.failed :
                  /\ k \in Range(r.Missing) <=> disk[k] = NoFile
                  /\ k \in Range(r.Mismatch) <=> (disk[k] # NoFile /\ (~sameSize(k) \/ ~sameHash(k)))
                  /\ k \in Range(r.OK) <=> (disk[k] # NoFile /\ sameSize(k) /\ sameHash(k))
            /\ ver.fatal = "nil" =>
                  localFile = [k \in DOMAIN ver.local0 \ (Range(r.Missing) \cup Range(r.Mismatch))
                                  |-> ver.local0[k]]

\* Verify returned after finding one file whose size equals its entry's while
\* its hash does not, and one file missing, and saved the manifest without them
VerifyClassifiesWitness ==
    /\ ver.pc = "done" /\ ver.fatal = "nil"
    /\ \E k \in Range(ver.result.Mismatch) : FileSize(disk[k]) = ver.local0[k].Size
    /\ ver.result.Missing # <<>>
    /\ localFile = EmptyMap /\ ver.local0 # EmptyMap

\* C22: in a non-dry-run Sync that follows a Verify which returned no error,
\* once the Sync has planned its work every key Verify reported Missing or
\* Mismatch that is in the selected remote manifest is in the download queue;
\* and when the Sync reports such a key as downloaded, the file on disk holds
\* the remote object's content, the key is in the local manifest with the
\* remote entry, and so it is in the manifest file once Run has returned nil.
VerifyThenSync ==
    (/\ ver.pc = "done" /\ ver.fatal = "nil"
     /\ ~run[1].opts.DryRun /\ Planned(1)) =>
        \A k \in (Range(ver.result.Missing) \cup Range(ver.result.Mismatch)) \cap Selected :
            /\ k \in Range(run[1].queue)
            /\ k \in Range(run[1].result.Downloaded) =>
                  /\ disk[k] = remote[k].MD5
                  /\ k \in DOMAIN run[1].local /\ run[1].local[k] = remote[k]
                  /\ (pc[1] = "done" /\ run[1].fatal = "nil") =>
                        (k \in DOMAIN localFile /\ localFile[k] = remote[k])

\* Verify reported a file with the entry's size and other bytes, and the Sync
\* after it, with retries enabled, has downloaded the key and returned nil
VerifyThenSyncWitness ==
    /\ ver.pc = "done" /\ ver.fatal = "nil"
    /\ pc[1] = "done" /\ run[1].fatal = "nil" /\ run[1].opts.MaxRetries >= 0
    /\ \E k \in Range(ver.result.Mismatch) \cap Range(run[1].result.Downloaded) :
          /\ FileSize(hist[1].disk0[k]) = ver.local0[k].Size
          /\ disk[k] = remote[k].MD5

\* ------------------------------------------------- remote manifest failure
FetchErrors == {"downloading remote manifest", "parsing remote manifest"}

\* C23: a Run that cannot download or parse the remote manifest returns that
\* error and no Result, having made no DownloadFile call and completed no
\* download, with the sync lock released; and no step of a Run up to the fetch
\* of the remote manifest, the failing fetch included, changes a file or a temp
\* file under the emulation path, the local manifest file or the bucket.
FetchFailureFatal ==
    /\ []((pc[1] = "done" /\ run[1].fatal \in FetchErrors) =>
            /\ hist[1].calls = {} /\ hist[1].ok = {}
            /\ run[1].result = EmptyResult
            /\ disk = hist[1].disk0 /\ localFile = hist[1].local0
            /\ ~holds[1])
    /\ [][(pc[1] \in {"idle", "lock"} \/ (pc'[1] = "done" /\ run'[1].fatal \in FetchErrors)) =>
            UNCHANGED <<remote, disk, tmp, localFile>>]_vars

\* a non-dry-run Sync with a key to download and a temp file left by an
\* interrupted run has returned "parsing remote manifest"; the temp file is
\* still there
FetchFailureFatalWitness ==
    /\ pc[1] = "done" /\ run[1].fatal = "parsing remote manifest"
    /\ ~run[1].opts.DryRun
    /\ ToDownload(1) # {}
    /\ tmp[K1] = Partial

\* ------------------------------------------------------ Manifest.SaveJSON
\* C24: from the call of SaveJSON on, whether it returns nil or an error or
\* is interrupted at any step, the target path holds what it held when
\* SaveJSON was called (a whole manifest or nothing) or the whole new
\* manifest; the only step that changes the target is the rename, which
\* puts there the whole new manifest written to the sibling temp file before;
\* and when SaveJSON returns nil the target holds the new manifest.
SaveAtomic ==
    /\ [](sav.pc # "idle" =>
            /\ sav.target \in {sav.old, WholeFile(sav.new)}
            /\ (sav.pc = "done" /\ sav.err = "nil") => sav.target = WholeFile(sav.new))
    /\ [][sav'.target # sav.target =>
            /\ sav.pc = "rename"
            /\ sav.temp = WholeFile(sav.new)
            /\ sav'.target = WholeFile(sav.new)]_vars

\* a save over another manifest wrote the whole temp file, failed to rename it
\* and removed it: the target still holds the previous manifest
SaveAtomicWitness ==
    /\ sav.pc = "done" /\ sav.err = "renaming manifest"
    /\ sav.temp = AbsentFile
    /\ sav.old.st = "whole" /\ sav.old.m # sav.new
    /\ sav.target = sav.old

\* ------------------------------------------------------------ manifest.Diff
\* C25: for each call Diff(A, B) that has returned: Added holds exactly the keys
\* of A that are not in B, Modified exactly the keys in both whose entries
\* differ in size or in hash, Deleted exactly the keys of B that are not in A;
\* no key is in two of the lists or twice in one; and while a call is under
\* way its two arguments are the manifests it was given.
DiffIsSetDifference ==
    /\ \A n \in 1..Len(dif.res) :
          LET A == DiffArgs(n)[1]
              B == DiffArgs(n)[2]
              r == dif.res[n]
          IN  /\ Range(r.Added) = {k \in DOMAIN A : k \notin DOMAIN B}
              /\ Range(r.Modified) =
                    {k \in DOMAIN A \cap DOMAIN B : A[k].Size # B[k].Size \/ A[k].MD5 # B[k].MD5}
              /\ Range(r.Deleted) = {k \in DOMAIN B : k \notin DOMAIN A}
              /\ NoDup(r.Added \o r.Modified \o r.Deleted)
    /\ dif.pc = "loops" =>
          <<dif.remote, dif.local>> = DiffArgs(Len(dif.res) + 1)

\* Diff(x, y) has returned one key as Modified whose two entries have the
\* same hash and different sizes, and the other key as Deleted
DiffIsSetDifferenceWitness ==
    /\ Len(dif.res) >= 1
    /\ dif.res[1].Deleted # <<>>
    /\ \E k \in Range(dif.res[1].Modified) : dif.x[k].MD5 = dif.y[k].MD5

\* C26: once Diff(x, y), Diff(y, x) and Diff(x, x) have returned: as sets, the
\* Added of the first is the Deleted of the second, the Deleted of the first is
\* the Added of the second, and the third has Added, Modified and Deleted empty.
DiffInverse ==
    /\ Len(dif.res) >= 2 =>
          /\ Range(dif.res[1].Added) = Range(dif.res[2].Deleted)
          /\ Range(dif.res[1].Deleted) = Range(dif.res[2].Added)
    /\ Len(dif.res) >= 3 => dif.res[3] = EmptyDiffResult

\* the three calls have returned, for two manifests each of which has a key
\* the other has not
DiffInverseWitness ==
    /\ Len(dif.res) = 3
    /\ dif.res[1].Added # <<>> /\ dif.res[2].Added # <<>>

\* --------------------------------------------------------- upload hashCache
\* C27: a lookup(key, size, mtime) is a hit exactly when the key has an entry
\* (from the cache file or from an update not pruned since) whose size is size
\* and whose mtime is mtime, and a hit returns the hash of that entry, a miss
\* the empty string; so after update(key, s, m, h) the lookup (key, s, m) hits
\* with h and a lookup of the key with another size or another mtime misses.
LookupHitsExactly ==
    hc.last # NoLookup =>
        LET l == hc.last
            held == l.key \in DOMAIN hc.args
            same == held /\ hc.args[l.key].Size = l.size /\ hc.args[l.key].Mtime = l.mtime
        IN  /\ l.ok <=> same
            /\ l.ok => l.md5 = hc.args[l.key].MD5
            /\ ~l.ok => l.md5 = ""

\* a lookup with the size of the key's last update and another mtime has missed
LookupHitsExactlyWitness ==
    /\ hc.last # NoLookup /\ ~hc.last.ok
    /\ hc.last.key \in DOMAIN hc.args
    /\ hc.args[hc.last.key].Size = hc.last.size
    /\ hc.args[hc.last.key].Mtime # hc.last.mtime

\* ---------------------------------------------------- webServer.handleSync
\* C28: at no time have two syncs been started by handleSync without the
\* first having finished, so at most one runSync goroutine exists.  A POST is
\* answered 409 exactly when a started sync had not finished at its test under
\* syncMu, and then it starts no goroutine; a POST that found no sync running
\* is answered 200 and has started one, unless its body does not decode (400)
\* or the configuration cannot be written (500).
SingleSync ==
    /\ Cardinality(RunningSyncs) <= 1
    /\ \A r \in Reqs :
          LET q == web.req[r]
          IN  /\ q.status = 409 => (q.saw /\ web.gor[r] = "none")
              /\ (q.pc \in {"decode", "go"} \/ q.status \in {200, 400, 500}) => ~q.saw
              /\ q.status = 200 <=> web.gor[r] # "none"
              /\ q.status = 400 <=> (q.pc = "done" /\ q.body = "bad" /\ ~q.saw)

\* one POST was answered 409 while the sync of another was running, and a
\* later POST has started a second sync after the first had finished
SingleSyncWitness ==
    \E a, b, c \in Reqs :
        /\ web.gor[a] = "exited"
        /\ web.req[b].status = 409
        /\ web.gor[c] = "run"

\* ---------------------------------------------------------- the worker pool
\* the workers inside the retry-wrapped transfer of a key
InFlight == {w \in PoolWorkers : pool.wk[w].st = "call"}
\* the workers that hold a key: in the transfer or about to send its result
Holding == {w \in PoolWorkers : pool.wk[w].st \in {"call", "ret"}}
\* the keys of a list of results
ResultKeys(rs) == [i \in 1..Len(rs) |-> rs[i].key]
\* all results sent so far: received by the coordinator or in the channel
SentResults == ResultKeys(pool.got) \o ResultKeys(pool.results)

\* C29: in the parallel path no key is received by a worker twice, has its
\* retry-wrapped transfer run twice or gets two results, and every key that
\* was received is with exactly one worker or has exactly one result; when the
\* function returns, every queued key was received once, its transfer ran once
\* and the coordinator got one result for it.  Never are more than Workers
\* transfers in flight, and no two workers hold the same key (so they never
\* work on the same temp path or final path).
OneWorkerPerKey ==
    /\ NoDup(pool.taken) /\ NoDup(pool.ran) /\ NoDup(SentResults)
    /\ Range(pool.taken) \subseteq Range(pool.keys)
    /\ Range(pool.ran) \subseteq Range(pool.taken)
    /\ \A k \in Range(pool.taken) :
          Cardinality({w \in Holding : pool.wk[w].key = k}) + Count(SentResults, k) = 1
    /\ \A k \in Range(SentResults) : k \in Range(pool.ran)
    /\ Cardinality(InFlight) <= pool.workers
    /\ \A v, w \in Holding : v # w => pool.wk[v].key # pool.wk[w].key
    /\ pool.pc = "done" =>
          /\ Range(pool.taken) = Range(pool.keys)
          /\ Range(pool.ran) = Range(pool.keys)
          /\ Range(ResultKeys(pool.got)) = Range(pool.keys)
          /\ Len(pool.got) = Len(pool.keys)

\* two workers are inside the transfers of two keys while a third key waits
\* in the jobs channel
OneWorkerPerKeyWitness ==
    /\ Cardinality(InFlight) = 2 /\ pool.workers = 2
    /\ Len(pool.jobs) = 1
    /\ Len(pool.keys) = 3

\* the worker goroutines that were started
Started == 1..pool.workers

\* C30: when every goroutine that can take a step eventually takes one and
\* every retry-wrapped transfer returns, the parallel path ends, for any two
\* or more keys, any two or more workers (also more than keys) and whatever
\* each transfer returns: eventually the coordinator's range loop is over, and
\* then every worker has returned, the closing goroutine is done and the
\* coordinator has received exactly one result per key; results is closed only
\* when every worker has returned and the result of every key has been sent;
\* and neither channel ever holds more than its capacity, so no send blocks.
PoolTerminates ==
    /\ <>(pool.pc = "done")
    /\ [](pool.pc = "done" =>
            /\ \A w \in Started : pool.wk[w].st = "exit"
            /\ pool.closer = "done" /\ pool.jobs = <<>> /\ pool.results = <<>>
            /\ Len(pool.got) = Len(pool.keys)
            /\ \A i \in 1..Len(pool.keys) : Count(ResultKeys(pool.got), pool.keys[i]) = 1)
    /\ [](pool.resultsClosed =>
            /\ \A w \in Started : pool.wk[w].st = "exit"
            /\ Len(SentResults) = Len(pool.keys))
    /\ []((\E w \in PoolWorkers : pool.wk[w].st = "ret") => Len(pool.results) < ChanCap(pool.keys))
    /\ [](pool.pc = "send" /\ pool.sent < Len(pool.keys) => Len(pool.jobs) < ChanCap(pool.keys))

\* a pool with more workers than keys has ended, one transfer having failed
\* and one having succeeded
PoolTerminatesWitness ==
    /\ pool.pc = "done"
    /\ pool.workers > Len(pool.keys)
    /\ \E i, j \in 1..Len(pool.got) : pool.got[i].err = "nil" /\ pool.got[j].err = "failed"

\* C31: during a parallel Sync only the coordinator, which drains the results
\* channel, writes the in-memory local manifest, the Result lists and the
\* local manifest file: every step that changes one of them takes the head off
\* the results channel and moves no worker goroutine.
CoordinatorOnlyWrites ==
    [][(/\ pc[1] = "par" /\ pc'[1] = "par"
        /\ \/ run'[1].local # run[1].local
           \/ run'[1].result # run[1].result
           \/ localFile' # localFile)
       => /\ task' = task
          /\ chans[1].results # <<>>
          /\ chans'[1].results = Tail(chans[1].results)]_vars

\* the coordinator has committed a key while a worker goroutine holds the
\* outcome of another one
CoordinatorOnlyWritesWitness ==
    /\ pc[1] = "par"
    /\ run[1].result.Downloaded # <<>>
    /\ \E w \in 1..MaxWorkers : task[1][w].st = "ret"

RECURSIVE SizeSum(_, _)
\* the sum of the sizes a manifest records for a set of keys
SizeSum(m, S) ==
    IF S = {} THEN 0
    ELSE LET k == CHOOSE x \in S : TRUE IN m.Size[k] + SizeSum(m, S \ {k})

\* the downloads of run p whose record a kill would lose now: committed to
\* the in-memory manifest, not in the local manifest file
Unpersisted(p) ==
    {k \in Range(run[p].result.Downloaded) :
        k \notin DOMAIN localFile \/ localFile[k] # run[p].local[k]}

\* the sum of their sizes
UnpersistedBytes(p) ==
    SizeSum([Size |-> [k \in Unpersisted(p) |-> run[p].local[k].Size]], Unpersisted(p))

\* C32: during the transfer phase of a non-dry-run Sync, the sizes of the
\* entries committed to the in-memory manifest and not yet in the local
\* manifest file sum to less than the save threshold, also after a mid-run
\* save has failed.
UnsavedBelowThreshold ==
    (pc[1] \in {"seq", "par"} /\ ~run[1].opts.DryRun)
        => UnpersistedBytes(1) < run[1].threshold

\* a mid-run save has been due and has failed: the counter is back at zero
\* and a threshold's worth of committed entries is in no file
UnsavedBelowThresholdWitness ==
    /\ pc[1] \in {"seq", "par"} /\ ~run[1].opts.DryRun
    /\ run[1].unsaved = 0
    /\ UnpersistedBytes(1) >= run[1].threshold

\* the positions of the events of the given types about file k in the lines
\* the Reporter of process 1 has written
EventsAt(types, k) ==
    {i \in 1..Len(hist[1].events) : hist[1].events[i].type \in types /\ hist[1].events[i].file = k}

StreamInOrder(c) ==
    LET me == ev.cl[c]
    IN  /\ me.cursor = me.from + Len(me.got)
        /\ \A i \in 1..Len(me.got) :
              /\ me.from + i <= Len(ev.lines)
              /\ me.got[i] = [id |-> me.from + i - 1, data |-> ev.lines[me.from + i]]

\* client c's stream has ended with everything the finished sync wrote
StreamComplete(c) ==
    /\ ev.cl[c].pc = "end"
    /\ ev.done
    /\ ev.cl[c].cursor >= Len(ev.lines)

\* what holds of the streams: the events sent are in order and complete at the end
StreamsInOrder ==
    \A c \in Clients : /\ StreamInOrder(c)
                       /\ ev.cl[c].pc = "end" => StreamComplete(c)

\* C34: every client streaming a sync's event log is sent every line of the
\* log from its cursor on, once, in write order, with consecutive ids, and
\* the stream of a client that stays connected ends after the sync finished,
\* for any number of clients and any interleaving of Write, finish and read.
StreamDelivers ==
    /\ []StreamsInOrder
    /\ \A c \in Clients :
          (ev.cl[c].pc \in {"read", "wait"}) ~> (StreamComplete(c) \/ ev.cl[c].pc = "gone")

\* the sync has finished and signalled, one client has taken the signal and
\* ended, another waits on the empty notify channel with lines it never got
StreamDeliversWitness ==
    /\ ev.wpc = "closed" /\ ev.notify = 0
    /\ \E c, d \in Clients :
          /\ ev.cl[c].pc = "end"
          /\ ev.cl[d].pc = "wait"
          /\ ev.cl[d].cursor < Len(ev.lines)

\* C35: after a non-dry-run, non-manifest-only Upload has returned without a
\* fatal error, every key of the manifest it published has an object in the
\* bucket whose content is the scanned file's (the entry's hash is the
\* object's), also when UploadFile calls of the run failed.
PublishedObjectsPresent ==
    (up.pc = "done" /\ up.fatal = "nil" /\ ~up.opts.DryRun /\ ~up.opts.ManifestOnly) =>
        \A k \in DOMAIN remote : objects[k] = remote[k].MD5 /\ objects[k] = tree.files[k]

\* Run has returned nil, an UploadFile call for a new key had failed with
\* every retry, and the published manifest lists the key without an object
PublishedObjectsPresentWitness ==
    /\ up.pc = "done" /\ up.fatal = "nil" /\ ~up.opts.DryRun /\ ~up.opts.ManifestOnly
    /\ up.opts.MaxRetries >= 0
    /\ \E k \in ErrorKeys(up.result.Errors, UploadErrors) :
          k \in DOMAIN remote /\ objects[k] = NoFile

\* C36: for every maxRetries, negative values included, WithBackoff returns
\* nil only if an invocation of the operation returned nil.
NilOnlyOnSuccess ==
    (wb.tk.st = "ret" /\ wb.tk.err = "nil") => "nil" \in Range(wb.results)

\* WithBackoff has returned nil for a negative maxRetries without having
\* invoked the operation
NilOnlyOnSuccessWitness ==
    /\ wb.maxRetries < 0
    /\ wb.tk.st = "ret" /\ wb.tk.err = "nil"
    /\ wb.results = <<>>

\* Verify and the Sync have both returned without a fatal error
BothReturned ==
    /\ ver.pc = "done" /\ ver.fatal = "nil"
    /\ pc[1] = "done" /\ run[1].fatal = "nil" /\ ~run[1].opts.DryRun

\* C37: a Verify and a non-dry-run Sync on the same local manifest do not
\* overlap their load, modify and save of the file: once both have returned,
\* an entry Verify pruned as Missing or Mismatch is in the persisted manifest
\* only if the Sync downloaded the file, and every entry the Sync committed
\* is in the persisted manifest.
VerifySyncSerialized ==
    BothReturned =>
        /\ \A k \in Range(ver.result.Missing) \cup Range(ver.result.Mismatch) :
              k \in DOMAIN localFile => k \in hist[1].ok
        /\ \A k \in Range(run[1].result.Downloaded) :
              k \in DOMAIN localFile /\ localFile[k] = remote[k]

\* both have returned, Verify saved last, and an entry the Sync downloaded and
\* committed is not in the local manifest file
VerifySyncSerializedWitness ==
    /\ BothReturned
    /\ \E k \in Range(run[1].result.Downloaded) :
          /\ k \in hist[1].ok
          /\ disk[k] = remote[k].MD5
          /\ k \notin DOMAIN localFile

\* C38: a non-dry-run Sync has released the sync lock when Run has returned,
\* on every return path, so a Sync started after an earlier one has returned
\* is never refused with "another sync is already running" and takes the lock
\* at its attempt; the lock file, once created, is never deleted.
LockReleasedOnReturn ==
    /\ [](\A p \in Procs : pc[p] \in {"idle", "done"} => ~holds[p])
    /\ [](pc[1] = "done" => run[1].fatal # LockHeldError)
    /\ [][(pc[1] = "lock" /\ pc'[1] # "lock") =>
             (holds'[1] \/ (pc'[1] = "done" /\ run'[1].fatal = "killed"))]_vars
    /\ [][lockFile => lockFile']_vars
    /\ []((\E p \in Procs : holds[p]) => lockFile)

\* a second non-dry-run Sync is at its lock attempt after an earlier
\* non-dry-run Run, which created the lock file, returned a fatal error or
\* per-file errors or was killed: nothing holds the lock
LockReleasedOnReturnWitness ==
    /\ run[1].runs = 2 /\ ~run[1].opts.DryRun
    /\ pc[1] = "lock"
    /\ lockFile /\ ~hist[1].prevOK
    /\ \A p \in Procs : ~holds[p]

\* C39: a dry-run Sync and a non-dry-run Sync in which no transfer and no
\* deletion fails report the same Downloaded, Deleted and Retained key sets
\* and the same Skipped count for the same remote manifest, local manifest,
\* disk and configuration, with deletion enabled and with deletion disabled:
\* both report what the inputs determine.
DryRunReportsAlike ==
    (/\ pc[1] = "done" /\ run[1].fatal = "nil"
     /\ run[1].opts.DryRun \/ run[1].result.Errors = <<>>) =>
        LET r == run[1].result
            allowed == cfg.Delete /\ ~run[1].opts.NoDelete
        IN  /\ Range(r.Downloaded) = ToDownload(1)
            /\ Range(r.Deleted) = IF allowed THEN Gone(1) ELSE {}
            /\ Range(r.Retained) = IF allowed THEN {} ELSE Gone(1)
            /\ r.Skipped = Cardinality(Selected) - Cardinality(ToDownload(1))

\* a dry run with deletion disabled has ended and lists in Deleted a key it
\* would retain
DryRunReportsAlikeWitness ==
    /\ pc[1] = "done" /\ run[1].fatal = "nil" /\ run[1].opts.DryRun
    /\ ~(cfg.Delete /\ ~run[1].opts.NoDelete)
    /\ Gone(1) # {}
    /\ Range(run[1].result.Deleted) = Gone(1)
    /\ run[1].result.Retained = <<>>

\* C40: once encodeSelections has produced sync_dirs and sync_exclude from the
\* groups of a manifest, ShouldSync under those lists is true for exactly the
\* selected keys of the manifest and false for every unselected one
SelectionsRoundTrip ==
    ch.pc = "saved" =>
        \A k \in ch.manifest : ShouldSyncPath(ch.dirs, ch.excl, k) <=> k \in ch.selected

\* a partial selection of a system with sub-directories has been encoded
SelectionsRoundTripWitness ==
    /\ ch.pc = "saved"
    /\ ch.selected # {} /\ ch.selected # ch.manifest
    /\ ch.excl # {}

====
